---- MODULE Spec2Model ----
(***************************************************************************)
(* A model of enveil/enject: the password store (src/src/store/password.rs)*)
(* with its atomic save, the .env template engine (src/src/env_template.rs)*)
(* and the import command (src/src/commands/import.rs).                    *)
(*                                                                         *)
(* Strings are sequences of one-character strings, so that trimming,      *)
(* prefix stripping, lower-casing and formatting are computed, not assumed.*)
(* Cryptography is symbolic: Argon2id is an injective function of          *)
(* (password, salt, params); an AES-256-GCM ciphertext is a sealed term    *)
(* that opens only under the key and nonce that sealed it and only while   *)
(* none of its bytes has been altered.                                     *)
(***************************************************************************)
EXTENDS Naturals, Integers, Sequences, FiniteSets, TLC

(***************************************************************************)
(* Bounds of the model.                                                    *)
(***************************************************************************)
\* size of the modelled space of 12-byte nonces the thread RNG can return
NumNonces == 2
\* tampering flips the last byte of the nonce and the bytes at offsets
\* 0..MaxCtOffset of the ciphertext
MaxCtOffset == 0
\* largest number of bytes of the store file that differ from what save wrote
MaxFlips == 1
\* longest template handed to resolve, in lines
MaxLines == 3
\* longest file handed to import, in lines
MaxImportLines == 3

(***************************************************************************)
(* Program constants.                                                      *)
(***************************************************************************)
NONCE_LEN == 12
\* AES-GCM appends a 16-byte authentication tag to the ciphertext
TAG_LEN == 16

Procs == {1}

DefaultParams == [m_cost |-> 65536, t_cost |-> 3, p_cost |-> 4]
test_params == [m_cost |-> 8192, t_cost |-> 1, p_cost |-> 1]

\* Salts are 32-byte vectors; the model names them.
Salts == {"salt_a", "salt_b"}
Passwords == {"pw1", "pw2"}
Nonces == 1..NumNonces
\* u64 temp-file suffixes the RNG can return
TmpNames == {1, 2}

Keys == {<<"a">>, <<"b">>}
Values == {<<"1">>, <<"2">>}

(***************************************************************************)
(* HashMap<String, String>                                                 *)
(***************************************************************************)
EmptyMap == [k \in {} |-> <<>>]

\* insert with a bug: the value of a key that is in the map is kept
MapInsert_if_absent(m, k, v) == [x \in (DOMAIN m) \cup {k} |-> IF x \in DOMAIN m THEN m[x] ELSE v]

MapInsert(m, k, v) == [x \in (DOMAIN m) \cup {k} |-> IF x = k THEN v ELSE m[x]]

MapRemove(m, k) == [x \in (DOMAIN m) \ {k} |-> m[x]]

\* Option<HashMap<String, String>>
NoSecrets == [some |-> FALSE, map |-> EmptyMap]

SomeSecrets(m) == [some |-> TRUE, map |-> m]

(***************************************************************************)
(* serde_json: a map is written as a JSON object whose members come in the *)
(* HashMap's iteration order, which is arbitrary; reading an object        *)
(* inserts its members one after the other.                                *)
(***************************************************************************)
RECURSIVE Perms(_)
Perms(S) ==
    IF S = {} THEN {<<>>}
    ELSE UNION {{<<x>> \o p : p \in Perms(S \ {x})} : x \in S}

\* to_vec with a bug: a map of several entries loses one of them
to_vec_lossy(m) ==
    {[i \in 1..Len(p) |-> <<p[i], m[p[i]]>>] :
        p \in UNION {Perms((DOMAIN m) \ {k}) : k \in {x \in DOMAIN m : Cardinality(DOMAIN m) > 1}}
              \cup {q \in Perms(DOMAIN m) : Cardinality(DOMAIN m) <= 1}}

\* serde_json::to_vec(secrets): every member order the map can iterate in
to_vec(m) == {[i \in 1..Len(p) |-> <<p[i], m[p[i]]>>] : p \in Perms(DOMAIN m)}

RECURSIVE InsertAll(_, _)
InsertAll(m, members) ==
    IF members = <<>> THEN m
    ELSE InsertAll(MapInsert(m, Head(members)[1], Head(members)[2]), Tail(members))

\* serde_json::from_slice::<HashMap<String, String>>(&plaintext)
from_slice(pt) ==
    IF \A i \in 1..Len(pt) : Len(pt[i]) = 2
    THEN [ok |-> TRUE, map |-> InsertAll(EmptyMap, pt)]
    ELSE [ok |-> FALSE, map |-> EmptyMap]

RECURSIVE SumLen(_)
SumLen(members) ==
    IF members = <<>> THEN 0
    ELSE Len(Head(members)[1]) + Len(Head(members)[2]) + 5 + SumLen(Tail(members))

\* bytes of {"k":"v","k":"v"}
JsonLen(pt) == 2 + SumLen(pt) + (IF Len(pt) > 1 THEN Len(pt) - 1 ELSE 0)

(***************************************************************************)
(* Key derivation and AEAD                                                 *)
(***************************************************************************)
\* argon2::Params::new rejects degenerate cost values
ParamsValid(params) ==
    /\ params.t_cost >= 1
    /\ params.p_cost >= 1
    /\ params.m_cost >= 8 * params.p_cost

\* derive_key with a bug: one password is refused
derive_key_refusing(password, slt, params) ==
    IF ParamsValid(params) /\ password # "pw2"
    THEN [ok |-> TRUE, key |-> <<password, slt, params>>]
    ELSE [ok |-> FALSE, key |-> <<>>]

\* derive_key with a bug: the password does not enter the key
derive_key_no_password(password, slt, params) ==
    IF ParamsValid(params)
    THEN [ok |-> TRUE, key |-> <<"", slt, params>>]
    ELSE [ok |-> FALSE, key |-> <<>>]

\* derive_key with a bug: salt and params do not enter the key
derive_key_password_only(password, slt, params) ==
    IF ParamsValid(params)
    THEN [ok |-> TRUE, key |-> <<password, "", DefaultParams>>]
    ELSE [ok |-> FALSE, key |-> <<>>]

derive_key(password, slt, params) ==
    IF ParamsValid(params)
    THEN [ok |-> TRUE, key |-> <<password, slt, params>>]
    ELSE [ok |-> FALSE, key |-> <<>>]

\* A file is a sequence of chunks, one per write_all. x is the set of byte
\* offsets of the chunk that no longer hold what was written.
NonceChunk(n) == [kind |-> "nonce", n |-> n, k |-> <<>>, pt |-> <<>>, x |-> {}]

\* cipher.encrypt(nonce, json_bytes)
encrypt(key, n, pt) == [kind |-> "ct", n |-> n, k |-> key, pt |-> pt, x |-> {}]

\* bytes that no save of this program wrote: n is their number
Raw(len) == [kind |-> "raw", n |-> len, k |-> <<>>, pt |-> <<>>, x |-> {}]

ChunkLen(c) ==
    CASE c.kind = "nonce" -> NONCE_LEN
      [] c.kind = "raw" -> c.n
      [] OTHER -> JsonLen(c.pt) + TAG_LEN

RECURSIVE ByteLen(_)
ByteLen(data) == IF data = <<>> THEN 0 ELSE ChunkLen(Head(data)) + ByteLen(Tail(data))

\* decrypt with a bug: the key is not checked
decrypt_any_key(key, nonce_bytes, ciphertext) ==
    IF /\ Len(ciphertext) = 1
       /\ ciphertext[1].kind = "ct"
       /\ ciphertext[1].x = {}
       /\ nonce_bytes.kind = "nonce"
       /\ nonce_bytes.x = {}
       /\ ciphertext[1].n = nonce_bytes.n
    THEN [ok |-> TRUE, pt |-> ciphertext[1].pt]
    ELSE [ok |-> FALSE, pt |-> <<>>]

\* decrypt with a bug: the tag is not verified, altered bytes go unnoticed
decrypt_unauthenticated(key, nonce_bytes, ciphertext) ==
    IF /\ Len(ciphertext) = 1
       /\ ciphertext[1].kind = "ct"
       /\ ciphertext[1].k = key
       /\ nonce_bytes.kind = "nonce"
       /\ ciphertext[1].n = nonce_bytes.n
    THEN [ok |-> TRUE, pt |-> ciphertext[1].pt]
    ELSE [ok |-> FALSE, pt |-> <<>>]

\* cipher.decrypt(nonce, ciphertext): the tag verifies only for the untouched
\* output of encrypt under the same key and the same nonce bytes
decrypt(key, nonce_bytes, ciphertext) ==
    IF /\ Len(ciphertext) = 1
       /\ ciphertext[1].kind = "ct"
       /\ ciphertext[1].x = {}
       /\ ciphertext[1].k = key
       /\ nonce_bytes.kind = "nonce"
       /\ nonce_bytes.x = {}
       /\ ciphertext[1].n = nonce_bytes.n
    THEN [ok |-> TRUE, pt |-> ciphertext[1].pt]
    ELSE [ok |-> FALSE, pt |-> <<>>]

(***************************************************************************)
(* The file system: the store file and the temporary files beside it.      *)
(***************************************************************************)
NoFile == [exists |-> FALSE, data |-> <<>>]

FileOf(data) == [exists |-> TRUE, data |-> data]

\* config::store_path: <dir>/store
STORE_PATH == <<"store", 0>>

\* parent.join(format!(".store.tmp.{}", rand::random::<u64>()))
tmp_path(n) == <<".store.tmp", n>>

Paths == {STORE_PATH} \cup {tmp_path(n) : n \in TmpNames}

NoPending ==
    [password |-> "", nonce_bytes |-> 0, ciphertext |-> <<>>, tmp_path |-> STORE_PATH,
     handle |-> STORE_PATH, shared |-> FALSE]

\* what an operation leaves in last: its name, its password argument, its result
Result(op, pwd, res) == [op |-> op, pwd |-> pwd, res |-> res, replaced |-> {}, out |-> <<>>]

\* an operation that returns Ok(value)
Returned(op, value) == [Result(op, "", "Ok") EXCEPT !.out = value]

NoLast == Result("new", "", "Ok")

(***************************************************************************)
(* env_template.rs: EnvLine and resolve                                    *)
(***************************************************************************)
Passthrough(text) == [variant |-> "Passthrough", key |-> <<>>, text |-> text]

\* text is the literal value
Plain(key, value) == [variant |-> "Plain", key |-> key, text |-> value]

\* text is the secret name
LocalRef(key, secret_name) == [variant |-> "LocalRef", key |-> key, text |-> secret_name]

GlobalRef(key, secret_name) == [variant |-> "GlobalRef", key |-> key, text |-> secret_name]

\* "global/"
GLOBAL_SLASH == <<"g", "l", "o", "b", "a", "l", "/">>

\* Result<HashMap<String, String>, EnjectError>: an Err carries no map
ResolveOk(env) == [ok |-> TRUE, env |-> env, err |-> <<>>]

\* SecretNotFound with a bug: the scope is left out of the name
SecretNotFound_bare(name) ==
    [ok |-> FALSE, env |-> EmptyMap,
     err |-> IF Len(name) >= 7 /\ SubSeq(name, 1, 7) = <<"g", "l", "o", "b", "a", "l", "/">>
             THEN SubSeq(name, 8, Len(name)) ELSE name]

SecretNotFound(name) == [ok |-> FALSE, env |-> EmptyMap, err |-> name]

\* the for loop of resolve, from line i on, with the map built so far
RECURSIVE ResolveLoop(_, _, _, _, _)
ResolveLoop(lines, i, env, local_secrets, global_secrets) ==
    IF i > Len(lines) THEN ResolveOk(env)
    ELSE LET line == lines[i]
         IN  CASE line.variant = "Passthrough" ->
                    ResolveLoop(lines, i + 1, env, local_secrets, global_secrets)
               [] line.variant = "Plain" ->
                    ResolveLoop(lines, i + 1, MapInsert(env, line.key, line.text),
                                local_secrets, global_secrets)
               [] line.variant = "LocalRef" ->
                    IF line.text \in DOMAIN local_secrets
                    THEN ResolveLoop(lines, i + 1,
                                     MapInsert(env, line.key, local_secrets[line.text]),
                                     local_secrets, global_secrets)
                    ELSE SecretNotFound(line.text)
               [] line.variant = "GlobalRef" ->
                    IF line.text \in DOMAIN global_secrets
                    THEN ResolveLoop(lines, i + 1,
                                     MapInsert(env, line.key, global_secrets[line.text]),
                                     local_secrets, global_secrets)
                    ELSE SecretNotFound(GLOBAL_SLASH \o line.text)

(***************************************************************************)
(* env_template.rs: text, parse and templatize                             *)
(***************************************************************************)
EN_PREFIX == <<"e", "n", ":", "/", "/">>

GLOBAL_PREFIX == EN_PREFIX \o GLOBAL_SLASH

EV_COMPAT_PREFIX == <<"e", "v", ":", "/", "/">>

EV_COMPAT_GLOBAL_PREFIX == EV_COMPAT_PREFIX \o GLOBAL_SLASH

\* char::is_whitespace, for the characters of the model
WhiteSpace == {" ", "\t", "\r", "\n"}

RECURSIVE trim_end(_)
trim_end(str) ==
    IF str # <<>> /\ str[Len(str)] \in WhiteSpace
    THEN trim_end(SubSeq(str, 1, Len(str) - 1))
    ELSE str

RECURSIVE trim_start(_)
trim_start(str) ==
    IF str # <<>> /\ Head(str) \in WhiteSpace THEN trim_start(Tail(str)) ELSE str

trim(str) == trim_start(trim_end(str))

starts_with(str, prefix) ==
    /\ Len(str) >= Len(prefix)
    /\ SubSeq(str, 1, Len(prefix)) = prefix

\* Option<&str>: the text after the prefix
strip_prefix(str, prefix) ==
    IF starts_with(str, prefix)
    THEN [some |-> TRUE, rest |-> SubSeq(str, Len(prefix) + 1, Len(str))]
    ELSE [some |-> FALSE, rest |-> <<>>]

\* find with a bug: the last index of c instead of the first
find_last(str, c) ==
    IF \E i \in 1..Len(str) : str[i] = c
    THEN CHOOSE i \in 1..Len(str) : str[i] = c /\ \A j \in (i + 1)..Len(str) : str[j] # c
    ELSE 0

\* str::find(c): the first index (from 1) of c, 0 for None
find(str, c) ==
    IF \E i \in 1..Len(str) : str[i] = c
    THEN CHOOSE i \in 1..Len(str) : str[i] = c /\ \A j \in 1..(i - 1) : str[j] # c
    ELSE 0

\* str::lines: split at \n, drop a final \r of each line; text that ends
\* with \n has no empty last line
RECURSIVE lines_of(_)
lines_of(content) ==
    IF content = <<>> THEN <<>>
    ELSE LET nl == find(content, "\n")
             raw == IF nl = 0 THEN content ELSE SubSeq(content, 1, nl - 1)
             line == IF raw # <<>> /\ raw[Len(raw)] = "\r"
                     THEN SubSeq(raw, 1, Len(raw) - 1) ELSE raw
         IN  <<line>> \o (IF nl = 0 THEN <<>> ELSE lines_of(SubSeq(content, nl + 1, Len(content))))

\* [String]::join(sep)
RECURSIVE join(_, _)
join(strs, sep) ==
    IF strs = <<>> THEN <<>>
    ELSE IF Len(strs) = 1 THEN strs[1]
    ELSE strs[1] \o sep \o join(Tail(strs), sep)

\* char::to_lowercase, for the letters of the model
LowerChar(c) ==
    CASE c = "A" -> "a"
      [] c = "B" -> "b"
      [] c = "K" -> "k"
      [] c = "U" -> "u"
      [] OTHER -> c

to_lowercase(str) == [i \in 1..Len(str) |-> LowerChar(str[i])]

\* str::replace(from, to): every non-overlapping match, left to right
RECURSIVE replace(_, _, _)
replace(str, from, to) ==
    IF str = <<>> THEN <<>>
    ELSE IF starts_with(str, from)
         THEN to \o replace(SubSeq(str, Len(from) + 1, Len(str)), from, to)
         ELSE <<Head(str)>> \o replace(Tail(str), from, to)

\* str::matches(pat).count()
RECURSIVE count_matches(_, _)
count_matches(str, pat) ==
    IF str = <<>> THEN 0
    ELSE IF starts_with(str, pat)
         THEN 1 + count_matches(SubSeq(str, Len(pat) + 1, Len(str)), pat)
         ELSE count_matches(Tail(str), pat)

\* Result<(EnvLine, bool), EnjectError>
LineOk(env_line, is_legacy) == [ok |-> TRUE, line |-> env_line, legacy |-> is_legacy, err |-> ""]

LineErr(why) == [ok |-> FALSE, line |-> Passthrough(<<>>), legacy |-> FALSE, err |-> why]

\* the prefix branches with a bug: ev:// is tried before ev://global/
Classify_legacy_local_first(key, value) ==
    LET g == strip_prefix(value, GLOBAL_PREFIX)
        l == strip_prefix(value, EN_PREFIX)
        ll == strip_prefix(value, EV_COMPAT_PREFIX)
    IN  IF g.some
        THEN IF g.rest = <<>> THEN LineErr("empty secret name")
             ELSE LineOk(GlobalRef(key, g.rest), FALSE)
        ELSE IF l.some
        THEN IF l.rest = <<>> THEN LineErr("empty secret name")
             ELSE LineOk(LocalRef(key, l.rest), FALSE)
        ELSE IF ll.some
        THEN IF ll.rest = <<>> THEN LineErr("empty secret name")
             ELSE LineOk(LocalRef(key, ll.rest), TRUE)
        ELSE LineOk(Plain(key, value), FALSE)

\* the prefix branches with a bug: en:// is tried before en://global/
Classify_local_first(key, value) ==
    LET g == strip_prefix(value, GLOBAL_PREFIX)
        l == strip_prefix(value, EN_PREFIX)
    IN  IF l.some
        THEN IF l.rest = <<>> THEN LineErr("empty secret name")
             ELSE LineOk(LocalRef(key, l.rest), FALSE)
        ELSE IF g.some
        THEN IF g.rest = <<>> THEN LineErr("empty secret name")
             ELSE LineOk(GlobalRef(key, g.rest), FALSE)
        ELSE LineOk(Plain(key, value), FALSE)

\* the four prefix branches of parse_line, in the order of the code
Classify(key, value) ==
    LET g == strip_prefix(value, GLOBAL_PREFIX)
        l == strip_prefix(value, EN_PREFIX)
        lg == strip_prefix(value, EV_COMPAT_GLOBAL_PREFIX)
        ll == strip_prefix(value, EV_COMPAT_PREFIX)
    IN  IF g.some
        THEN IF g.rest = <<>> THEN LineErr("empty secret name")
             ELSE LineOk(GlobalRef(key, g.rest), FALSE)
        ELSE IF l.some
        THEN IF l.rest = <<>> THEN LineErr("empty secret name")
             ELSE LineOk(LocalRef(key, l.rest), FALSE)
        ELSE IF lg.some
        THEN IF lg.rest = <<>> THEN LineErr("empty secret name")
             ELSE LineOk(GlobalRef(key, lg.rest), TRUE)
        ELSE IF ll.some
        THEN IF ll.rest = <<>> THEN LineErr("empty secret name")
             ELSE LineOk(LocalRef(key, ll.rest), TRUE)
        ELSE LineOk(Plain(key, value), FALSE)

\* parse_line with a bug: a comment or blank line loses its trailing whitespace
parse_line_trimmed(line) ==
    LET trimmed == trim_end(line)
    IN  IF trimmed = <<>> \/ Head(trimmed) = "#"
        THEN LineOk(Passthrough(trimmed), FALSE)
        ELSE LET eq_pos == find(trimmed, "=")
             IN  IF eq_pos = 0 THEN LineErr("no '=' found")
                 ELSE LET key == trim(SubSeq(trimmed, 1, eq_pos - 1))
                          value == SubSeq(trimmed, eq_pos + 1, Len(trimmed))
                      IN  IF key = <<>> THEN LineErr("empty key")
                          ELSE Classify(key, value)

parse_line(line) ==
    LET trimmed == trim_end(line)
    IN  IF trimmed = <<>> \/ Head(trimmed) = "#"
        THEN LineOk(Passthrough(line), FALSE)
        ELSE LET eq_pos == find(trimmed, "=")
             IN  IF eq_pos = 0 THEN LineErr("no '=' found")
                 ELSE LET key == trim(SubSeq(trimmed, 1, eq_pos - 1))
                          value == SubSeq(trimmed, eq_pos + 1, Len(trimmed))
                      IN  IF key = <<>> THEN LineErr("empty key")
                          ELSE Classify(key, value)

\* parse with a bug: a malformed line is left out instead of failing the call
parse_skipping(content) ==
    LET ls == lines_of(content)
        rs == [i \in 1..Len(ls) |-> parse_line(ls[i])]
        good == SelectSeq(rs, LAMBDA r : r.ok)
    IN  [ok |-> TRUE, lines |-> [i \in 1..Len(good) |-> good[i].line]]

\* parse: every line, or the error of a malformed one and no lines
parse(content) ==
    LET ls == lines_of(content)
        rs == [i \in 1..Len(ls) |-> parse_line(ls[i])]
    IN  IF \A i \in 1..Len(rs) : rs[i].ok
        THEN [ok |-> TRUE, lines |-> [i \in 1..Len(rs) |-> rs[i].line]]
        ELSE [ok |-> FALSE, lines |-> <<>>]

\* the secret name templatize writes for a Plain line: the key as it stands
template_name(key) == key

\* templatize with a bug: a Plain line keeps its literal value
templatize_line_keeping_literal(line) ==
    CASE line.variant = "Passthrough" -> line.text
      [] line.variant = "Plain" -> line.key \o <<"=">> \o line.text
      [] line.variant = "LocalRef" -> line.key \o <<"=">> \o EN_PREFIX \o line.text
      [] line.variant = "GlobalRef" -> line.key \o <<"=">> \o GLOBAL_PREFIX \o line.text

\* format!("{}=en://{}", ...) and format!("{}=en://global/{}", ...)
templatize_line(line) ==
    CASE line.variant = "Passthrough" -> line.text
      [] line.variant = "Plain" -> line.key \o <<"=">> \o EN_PREFIX \o template_name(line.key)
      [] line.variant = "LocalRef" -> line.key \o <<"=">> \o EN_PREFIX \o line.text
      [] line.variant = "GlobalRef" -> line.key \o <<"=">> \o GLOBAL_PREFIX \o line.text

templatize(lines) == [i \in 1..Len(lines) |-> templatize_line(lines[i])]

\* resolve with a bug: a reference that does not resolve is skipped
RECURSIVE ResolveSkipping(_, _, _, _, _)
ResolveSkipping(lines, i, env, local_secrets, global_secrets) ==
    IF i > Len(lines) THEN ResolveOk(env)
    ELSE LET line == lines[i]
             map == IF line.variant = "LocalRef" THEN local_secrets ELSE global_secrets
         IN  ResolveSkipping(lines, i + 1,
                 IF line.variant = "Plain" THEN MapInsert(env, line.key, line.text)
                 ELSE IF line.variant # "Passthrough" /\ line.text \in DOMAIN map
                      THEN MapInsert(env, line.key, map[line.text])
                      ELSE env,
                 local_secrets, global_secrets)

resolve_skipping(lines, local_secrets, global_secrets) ==
    ResolveSkipping(lines, 1, EmptyMap, local_secrets, global_secrets)

\* resolve with a bug: a key that is already in the map keeps its first value
RECURSIVE ResolveFirstWins(_, _, _, _, _)
ResolveFirstWins(lines, i, env, local_secrets, global_secrets) ==
    IF i > Len(lines) THEN ResolveOk(env)
    ELSE LET line == lines[i]
             one == ResolveLoop(<<line>>, 1, EmptyMap, local_secrets, global_secrets)
         IN  IF ~one.ok THEN one
             ELSE ResolveFirstWins(lines, i + 1,
                     [k \in (DOMAIN env) \cup (DOMAIN one.env) |->
                         IF k \in DOMAIN env THEN env[k] ELSE one.env[k]],
                     local_secrets, global_secrets)

resolve_first_wins(lines, local_secrets, global_secrets) ==
    ResolveFirstWins(lines, 1, EmptyMap, local_secrets, global_secrets)

resolve(lines, local_secrets, global_secrets) ==
    ResolveLoop(lines, 1, EmptyMap, local_secrets, global_secrets)

VARIABLES
    kdf_params,   \* PasswordStore.kdf_params, per process
    salt,         \* PasswordStore.salt
    secrets,      \* PasswordStore.secrets
    pc,           \* where each process stands: idle, inside save, crashed
    pending,      \* the locals of a save in progress
    last,         \* the operation each process entered last, and its result
                  \* (for a finished save also the passwords that opened the
                  \* file it replaced)
    fs,           \* the files of the store directory, by path
    saved,        \* history: the password, salt, params and map of the
                  \* last save that renamed its file over store_path
    r_lines,      \* resolve: the parsed template it is given
    r_local,      \* resolve: local_secrets
    r_global,     \* resolve: global_secrets
    r_out,        \* resolve: what it returned, once it has run
    env_file,     \* import: the text of the file being imported
    backup_file,  \* import: file.with_extension("env.bak")
    migrate_backup, \* parse_file: <file name>.bak, written before a migration
    env_tmp,      \* import: file.with_extension("env.tmp")
    import_pc,    \* import: where commands::import::run stands
    import_lines, \* import: lines, as parse_file returned them
    import_password, \* import: the password read from the prompt
    import_next,  \* import: the line the for loop over lines is at
    m_pc,         \* unlock / save, statement by statement: the statement reached
    m_password,   \* ... the password argument
    m_res,        \* ... unlock's local plaintext_result
    key_buf,      \* ... the local key: [u8; KEY_LEN]
    json_buf,     \* ... save's local json_bytes: Vec<u8>
    plaintext_buf, \* ... unlock's local plaintext: Vec<u8>
    key_uses,     \* ... how many encrypt or decrypt calls the key was used for
    p_line,       \* parse_line: the line it is given
    p_out,        \* parse_line: what it returned
    t_text,       \* parse: the text it is given
    t_parsed,     \* parse: what it returned
    t_lines,      \* templatize: what it returned for the parsed lines
    t_again,      \* parse: what it returned for the joined lines of templatize
    run_pc,       \* run: where commands::run::run stands
    run_cmd,      \* run: the command line it is given
    run_password, \* run: the password read from the prompt
    env_exists,   \* run: whether <root>/.env exists
    migrate_tmp,  \* parse_file: <file name>.tmp, written during a migration
    runner        \* run: the calls of runner::exec, each with the environment
                  \* it was given and whether it started a subprocess

storeVars == <<kdf_params, salt, secrets, pc, pending, last, fs, saved>>

resolveVars == <<r_lines, r_local, r_global, r_out>>

importVars == <<env_file, backup_file, migrate_backup, env_tmp, import_pc, import_lines,
                import_password, import_next>>

memVars == <<m_pc, m_password, m_res, key_buf, json_buf, plaintext_buf, key_uses>>

parseVars == <<p_line, p_out, t_text, t_parsed, t_lines, t_again>>

runVars == <<run_pc, run_cmd, run_password, env_exists, migrate_tmp, runner>>

vars == <<storeVars, resolveVars, importVars, memVars, parseVars, runVars>>

disk == fs[STORE_PATH]

NeverSaved == [valid |-> FALSE, password |-> "", salt |-> "", params |-> DefaultParams,
               map |-> EmptyMap]

(***************************************************************************)
(* PasswordStore                                                           *)
(***************************************************************************)
\* PasswordStore::new, by a new process (the previous one has exited or died)
New(p, params, slt) ==
    /\ pc[p] \in {"idle", "crashed"}
    /\ kdf_params' = [kdf_params EXCEPT ![p] = params]
    /\ salt' = [salt EXCEPT ![p] = slt]
    /\ secrets' = [secrets EXCEPT ![p] = NoSecrets]
    /\ pc' = [pc EXCEPT ![p] = "idle"]
    /\ last' = [last EXCEPT ![p] = NoLast]
    /\ UNCHANGED <<pending, fs, saved>>

\* unlock with a bug: the file is read before its existence is checked, so that
\* a missing file is an I/O error (and nothing else is modelled)
UnlockOutcome_needs_file(file, old, password, slt, params) ==
    [res |-> IF file.exists THEN "DecryptionFailed" ELSE "Io", secrets |-> old]

\* unlock with a bug: the key is derived before the length of the file is looked at
UnlockOutcome_key_first(file, old, password, slt, params) ==
    IF ~file.exists THEN [res |-> "Ok", secrets |-> SomeSecrets(EmptyMap)]
    ELSE LET key == derive_key(password, slt, params)
         IN  IF ~key.ok THEN [res |-> "Config", secrets |-> old]
             ELSE IF ByteLen(file.data) < NONCE_LEN THEN [res |-> "CorruptStore", secrets |-> old]
             ELSE LET plaintext == decrypt(key.key, file.data[1], Tail(file.data))
                  IN  IF ~plaintext.ok THEN [res |-> "DecryptionFailed", secrets |-> old]
                      ELSE LET parsed == from_slice(plaintext.pt)
                           IN  IF ~parsed.ok
                               THEN [res |-> "CorruptStore", secrets |-> old]
                               ELSE [res |-> "Ok", secrets |-> SomeSecrets(parsed.map)]

\* What unlock returns and what it leaves in self.secrets.
UnlockOutcome(file, old, password, slt, params) ==
    IF ~file.exists THEN [res |-> "Ok", secrets |-> SomeSecrets(EmptyMap)]
    ELSE IF ByteLen(file.data) < NONCE_LEN THEN [res |-> "CorruptStore", secrets |-> old]
    ELSE LET nonce_bytes == file.data[1]
             ciphertext == Tail(file.data)
             key == derive_key(password, slt, params)
         IN  IF ~key.ok THEN [res |-> "Config", secrets |-> old]
             ELSE LET plaintext == decrypt(key.key, nonce_bytes, ciphertext)
                  IN  IF ~plaintext.ok THEN [res |-> "DecryptionFailed", secrets |-> old]
                      ELSE LET parsed == from_slice(plaintext.pt)
                           IN  IF ~parsed.ok
                               THEN [res |-> "CorruptStore", secrets |-> old]
                               ELSE [res |-> "Ok", secrets |-> SomeSecrets(parsed.map)]

\* history: the passwords under which a fresh instance unlocks the file
OpenedBy(file, slt, params) ==
    {pw \in Passwords : file.exists /\ UnlockOutcome(file, NoSecrets, pw, slt, params).res = "Ok"}

Unlock(p, password) ==
    /\ pc[p] = "idle"
    /\ LET out == UnlockOutcome(disk, secrets[p], password, salt[p], kdf_params[p])
       IN  /\ secrets' = [secrets EXCEPT ![p] = out.secrets]
           /\ last' = [last EXCEPT ![p] = Result("unlock", password, out.res)]
    /\ UNCHANGED <<kdf_params, salt, pc, pending, fs, saved>>

\* Store::set
Set(p, key, value) ==
    /\ pc[p] = "idle"
    /\ IF secrets[p].some
       THEN /\ secrets' = [secrets EXCEPT ![p] = SomeSecrets(MapInsert(secrets[p].map, key, value))]
            /\ last' = [last EXCEPT ![p] = Result("set", "", "Ok")]
       ELSE /\ secrets' = secrets
            /\ last' = [last EXCEPT ![p] = Result("set", "", "CorruptStore")]
    /\ UNCHANGED <<kdf_params, salt, pc, pending, fs, saved>>

\* secrets_ref with a bug: a store that was never unlocked reads as empty
secrets_ref_lenient(s) == [ok |-> TRUE, map |-> s.map]

\* secrets_ref (and secrets_mut): the map, or CorruptStore("Store not unlocked.")
secrets_ref(s) == IF s.some THEN [ok |-> TRUE, map |-> s.map] ELSE [ok |-> FALSE, map |-> EmptyMap]

\* Option<SecretString>
None == <<"None">>

Some(v) == <<"Some", v>>

\* get with a bug: a missing key reads as the empty value
Get_or_default(p, key) ==
    /\ pc[p] = "idle"
    /\ LET r == secrets_ref(secrets[p])
       IN  last' = [last EXCEPT ![p] =
                IF ~r.ok THEN Result("get", "", "CorruptStore")
                ELSE Returned("get", IF key \in DOMAIN r.map THEN Some(r.map[key]) ELSE Some(<<>>))]
    /\ UNCHANGED <<kdf_params, salt, secrets, pc, pending, fs, saved>>

\* Store::get
Get(p, key) ==
    /\ pc[p] = "idle"
    /\ LET r == secrets_ref(secrets[p])
       IN  last' = [last EXCEPT ![p] =
                IF ~r.ok THEN Result("get", "", "CorruptStore")
                ELSE Returned("get", IF key \in DOMAIN r.map THEN Some(r.map[key]) ELSE None)]
    /\ UNCHANGED <<kdf_params, salt, secrets, pc, pending, fs, saved>>

\* the characters of the model, in code-point order
CharOrder == <<"0", "1", "2", "3", "A", "B", "K", "U", "a", "b", "k", "u", "x", "y", "z">>

CharRank(c) == CHOOSE i \in 1..Len(CharOrder) : CharOrder[i] = c

\* str's Ord: lexicographic by character
RECURSIVE StrLess(_, _)
StrLess(a, b) ==
    IF b = <<>> THEN FALSE
    ELSE IF a = <<>> THEN TRUE
    ELSE IF Head(a) = Head(b) THEN StrLess(Tail(a), Tail(b))
    ELSE CharRank(Head(a)) < CharRank(Head(b))

\* secrets.keys().cloned().collect(): the keys in any order the HashMap's
\* iterator may produce
keys(m) == Perms(DOMAIN m)

\* a list that forgets to sort
sort_forgotten(v) == v

\* keys.sort(): the elements of v (all different) in ascending order
RECURSIVE sort(_)
sort(v) ==
    IF v = <<>> THEN <<>>
    ELSE LET S == {v[i] : i \in 1..Len(v)}
             least == CHOOSE k \in S : \A other \in S \ {k} : StrLess(k, other)
         IN  <<least>> \o sort(SelectSeq(v, LAMBDA k : k # least))

\* Store::list
List(p) ==
    /\ pc[p] = "idle"
    /\ LET r == secrets_ref(secrets[p])
       IN  \E collected \in keys(r.map) :
               last' = [last EXCEPT ![p] =
                   IF ~r.ok THEN Result("list", "", "CorruptStore")
                   ELSE Returned("list", sort(collected))]
    /\ UNCHANGED <<kdf_params, salt, secrets, pc, pending, fs, saved>>

\* delete with a bug: it answers true whether or not the key was there
Delete_always_true(p, key) ==
    /\ pc[p] = "idle"
    /\ IF secrets[p].some
       THEN /\ secrets' = [secrets EXCEPT ![p] = SomeSecrets(MapRemove(secrets[p].map, key))]
            /\ last' = [last EXCEPT ![p] = Result("delete", "", "true")]
       ELSE /\ secrets' = secrets
            /\ last' = [last EXCEPT ![p] = Result("delete", "", "CorruptStore")]
    /\ UNCHANGED <<kdf_params, salt, pc, pending, fs, saved>>

\* Store::delete
Delete(p, key) ==
    /\ pc[p] = "idle"
    /\ IF secrets[p].some
       THEN /\ secrets' = [secrets EXCEPT ![p] = SomeSecrets(MapRemove(secrets[p].map, key))]
            /\ last' = [last EXCEPT ![p] =
                    Result("delete", "",
                           IF key \in DOMAIN secrets[p].map THEN "true" ELSE "false")]
       ELSE /\ secrets' = secrets
            /\ last' = [last EXCEPT ![p] = Result("delete", "", "CorruptStore")]
    /\ UNCHANGED <<kdf_params, salt, pc, pending, fs, saved>>

(***************************************************************************)
(* PasswordStore::save, one action per effect on the file system, so that  *)
(* the process can stop between any two of them.                           *)
(***************************************************************************)
InSave == {"created", "nonce_written", "ct_written", "synced"}

\* the other processes that hold an open handle on the file at path
Sharing(p, path) == {q \in DOMAIN pc \ {p} : pc[q] \in InSave /\ pending[q].handle = path}

\* File::create(&tmp_path) by p: own is what p holds for its save. If the name
\* exists because another save in progress drew it too, the file is truncated
\* and both now write to it (shared records that this has happened).
Opened(p, path, own) ==
    [q \in DOMAIN pending |->
        IF q = p THEN [own EXCEPT !.shared = Sharing(p, path) # {}]
        ELSE IF q \in Sharing(p, path) THEN [pending[q] EXCEPT !.shared = TRUE]
        ELSE pending[q]]

\* tmp.write_all(chunk) with the handle at byte offset: bytes before the
\* offset that were never written are a hole, bytes of the file behind the
\* end of the chunk stay
write_all(data, offset, chunk) ==
    IF offset = 0
    THEN IF data = <<>> THEN <<chunk>> ELSE <<chunk>> \o Tail(data)
    ELSE IF data = <<>> THEN <<Raw(offset), chunk>>
    ELSE LET behind == ByteLen(Tail(data)) - ChunkLen(chunk)
         IN  IF behind > 0 THEN <<Head(data), chunk, Raw(behind)>>
             ELSE <<Head(data), chunk>>

\* fill_bytes with a bug: the nonce of the existing store file is used again
fill_bytes_reuse(rng_out, file) ==
    IF file.exists /\ Len(file.data) > 0 THEN file.data[1].n ELSE rng_out

\* rand::thread_rng().fill_bytes(&mut nonce_bytes): the nonce of this save is
\* what the RNG has just returned, whatever the store file holds
fill_bytes(rng_out, file) == rng_out

\* write_path with a bug: save writes straight to the store file
write_path_in_place(n) == STORE_PATH

\* the path save writes to before the rename
write_path(n) == tmp_path(n)

\* save up to File::create(&tmp_path). rng_out and rng_name are what the thread
\* RNG returns for the nonce and for the temp-file suffix; json_bytes is the
\* serialization serde_json produced.
SaveBegin(p, password, rng_out, rng_name, json_bytes) ==
    /\ pc[p] = "idle"
    /\ secrets[p].some
    /\ json_bytes \in to_vec(secrets[p].map)
    /\ LET key == derive_key(password, salt[p], kdf_params[p])
           nonce_bytes == fill_bytes(rng_out, disk)
           path == write_path(rng_name)
       IN  IF ~key.ok
           THEN /\ last' = [last EXCEPT ![p] = Result("save", password, "Config")]
                /\ UNCHANGED <<pc, pending, fs>>
           ELSE /\ pending' = Opened(p, path,
                        [password |-> password,
                         nonce_bytes |-> nonce_bytes,
                         ciphertext |-> <<encrypt(key.key, nonce_bytes, json_bytes)>>,
                         tmp_path |-> path,
                         handle |-> path,
                         shared |-> FALSE])
                /\ fs' = [fs EXCEPT ![path] = FileOf(<<>>)]
                /\ pc' = [pc EXCEPT ![p] = "created"]
                /\ last' = [last EXCEPT ![p] = Result("save", password, "running")]
    /\ UNCHANGED <<kdf_params, salt, secrets, saved>>

\* create_empty with a bug: the store is handed out without having been saved
CreateEmpty_without_save(p, params, slt, password, rng_out, rng_name) ==
    /\ pc[p] \in {"idle", "crashed"}
    /\ kdf_params' = [kdf_params EXCEPT ![p] = params]
    /\ salt' = [salt EXCEPT ![p] = slt]
    /\ secrets' = [secrets EXCEPT ![p] = SomeSecrets(EmptyMap)]
    /\ pc' = [pc EXCEPT ![p] = "idle"]
    /\ last' = [last EXCEPT ![p] = Result("create_empty", password, "Ok")]
    /\ UNCHANGED <<pending, fs, saved>>

\* PasswordStore::create_empty up to File::create(&tmp_path) of its save: a new
\* instance (l.157), an empty map in it (l.158) and save (l.159), whose
\* remaining steps are those of every save
CreateEmpty(p, params, slt, password, rng_out, rng_name) ==
    /\ pc[p] \in {"idle", "crashed"}
    /\ kdf_params' = [kdf_params EXCEPT ![p] = params]
    /\ salt' = [salt EXCEPT ![p] = slt]
    /\ LET key == derive_key(password, slt, params)
           nonce_bytes == fill_bytes(rng_out, disk)
           path == write_path(rng_name)
       IN  IF ~key.ok
           THEN /\ secrets' = [secrets EXCEPT ![p] = NoSecrets]
                /\ pc' = [pc EXCEPT ![p] = "idle"]
                /\ last' = [last EXCEPT ![p] = Result("create_empty", password, "Config")]
                /\ UNCHANGED <<pending, fs>>
           ELSE \E json_bytes \in to_vec(EmptyMap) :
                /\ secrets' = [secrets EXCEPT ![p] = SomeSecrets(EmptyMap)]
                /\ pending' = Opened(p, path,
                        [password |-> password,
                         nonce_bytes |-> nonce_bytes,
                         ciphertext |-> <<encrypt(key.key, nonce_bytes, json_bytes)>>,
                         tmp_path |-> path,
                         handle |-> path,
                         shared |-> FALSE])
                /\ fs' = [fs EXCEPT ![path] = FileOf(<<>>)]
                /\ pc' = [pc EXCEPT ![p] = "created"]
                /\ last' = [last EXCEPT ![p] = Result("create_empty", password, "running")]
    /\ UNCHANGED saved

\* save on a store that was never unlocked: secrets_ref fails
SaveLocked(p, password) ==
    /\ pc[p] = "idle"
    /\ ~secrets[p].some
    /\ last' = [last EXCEPT ![p] = Result("save", password, "CorruptStore")]
    /\ UNCHANGED <<kdf_params, salt, secrets, pc, pending, fs, saved>>

\* tmp.write_all(&nonce_bytes)
SaveWriteNonce(p) ==
    /\ pc[p] = "created"
    /\ fs' = [fs EXCEPT ![pending[p].handle].data =
                  write_all(@, 0, NonceChunk(pending[p].nonce_bytes))]
    /\ pc' = [pc EXCEPT ![p] = "nonce_written"]
    /\ UNCHANGED <<kdf_params, salt, secrets, pending, last, saved>>

\* tmp.write_all(&ciphertext)
SaveWriteCiphertext(p) ==
    /\ pc[p] = "nonce_written"
    /\ fs' = [fs EXCEPT ![pending[p].handle].data =
                  write_all(@, NONCE_LEN, pending[p].ciphertext[1])]
    /\ pc' = [pc EXCEPT ![p] = "ct_written"]
    /\ UNCHANGED <<kdf_params, salt, secrets, pending, last, saved>>

\* tmp.sync_all()
SaveSync(p) ==
    /\ pc[p] = "ct_written"
    /\ pc' = [pc EXCEPT ![p] = "synced"]
    /\ UNCHANGED <<kdf_params, salt, secrets, pending, last, fs, saved>>

\* rename with a bug: the temporary file is removed and the target is left as it was
rename_dropping(files, from, to) == IF from = to THEN files ELSE [files EXCEPT ![from] = NoFile]

\* std::fs::rename(from, to): to holds from's content, from is gone
rename(files, from, to) ==
    IF from = to THEN files
    ELSE [files EXCEPT ![to] = files[from], ![from] = NoFile]

\* what the processes hold after p has renamed its temporary file: a handle
\* another process has on that file follows the file to the store path
Renamed(p) ==
    [q \in DOMAIN pending |->
        IF q = p THEN NoPending
        ELSE IF q \in Sharing(p, pending[p].tmp_path)
             THEN [pending[q] EXCEPT !.handle = STORE_PATH]
        ELSE pending[q]]

\* std::fs::rename(&tmp_path, &self.store_path); Ok(()). The rename finds the
\* name only if no other process has renamed the file away.
SaveRename(p) ==
    /\ pc[p] = "synced"
    /\ pending[p].handle = pending[p].tmp_path
    /\ fs' = rename(fs, pending[p].tmp_path, STORE_PATH)
    /\ pc' = [pc EXCEPT ![p] = "idle"]
    /\ last' = [last EXCEPT ![p] =
            [Result(last[p].op, pending[p].password, "Ok") EXCEPT
                !.replaced = OpenedBy(disk, salt[p], kdf_params[p])]]
    /\ saved' = [valid |-> TRUE, password |-> pending[p].password, salt |-> salt[p],
                 params |-> kdf_params[p], map |-> secrets[p].map]
    /\ pending' = Renamed(p)
    /\ UNCHANGED <<kdf_params, salt, secrets>>

\* A temporary file whose save has ended without the rename is never opened
\* again (a later save that draws the same name truncates it in File::create),
\* so the model stops tracking it.
Orphan(files, path) == IF path = STORE_PATH THEN files ELSE [files EXCEPT ![path] = NoFile]

\* the files after p's save has ended without its rename
Abandoned(p) ==
    IF Sharing(p, pending[p].tmp_path) # {} THEN fs ELSE Orphan(fs, pending[p].tmp_path)

\* store.save(password)? in create_empty: on Err the new store is dropped and
\* the caller gets no instance; a failed save of an existing instance leaves
\* the instance as it was
dropped_on_error(op, held) == IF op = "create_empty" THEN NoSecrets ELSE held

\* create, write_all, sync_all or rename fails: save returns Err(Io)
SaveIoError(p) ==
    /\ pc[p] \in InSave
    /\ fs' = Abandoned(p)
    /\ pc' = [pc EXCEPT ![p] = "idle"]
    /\ last' = [last EXCEPT ![p] = Result(last[p].op, pending[p].password, "Io")]
    /\ pending' = [pending EXCEPT ![p] = NoPending]
    /\ secrets' = [secrets EXCEPT ![p] = dropped_on_error(last[p].op, @)]
    /\ UNCHANGED <<kdf_params, salt, saved>>

\* The process stops (power loss, kill) between two steps of save.
Crash(p) ==
    /\ pc[p] \in InSave
    /\ fs' = Abandoned(p)
    /\ pc' = [pc EXCEPT ![p] = "crashed"]
    /\ secrets' = [secrets EXCEPT ![p] = NoSecrets]
    /\ pending' = [pending EXCEPT ![p] = NoPending]
    /\ last' = [last EXCEPT ![p] = Result(last[p].op, pending[p].password, "crash")]
    /\ UNCHANGED <<kdf_params, salt, saved>>

(***************************************************************************)
(* The environment alters one byte of the store file (bytes[pos] ^= 0xFF). *)
(***************************************************************************)
Toggle(S, i) == IF i \in S THEN S \ {i} ELSE S \cup {i}

FlipByte(data, pos) ==
    IF pos < NONCE_LEN
    THEN [data EXCEPT ![1].x = Toggle(@, pos)]
    ELSE [data EXCEPT ![2].x = Toggle(@, pos - NONCE_LEN)]

RECURSIVE Flips(_)
Flips(data) == IF data = <<>> THEN 0 ELSE Cardinality(Head(data).x) + Flips(Tail(data))

Tamper(pos) ==
    /\ disk.exists
    /\ pos < ByteLen(disk.data)
    /\ Flips(FlipByte(disk.data, pos)) <= MaxFlips
    /\ fs' = [fs EXCEPT ![STORE_PATH].data = FlipByte(@, pos)]
    /\ UNCHANGED <<kdf_params, salt, secrets, pc, pending, last, saved>>

TamperPositions == {NONCE_LEN - 1} \cup {NONCE_LEN + j : j \in 0..MaxCtOffset}

(***************************************************************************)
(* The store, used by one process at a time.                               *)
(***************************************************************************)
Configs == {[params |-> test_params, salt |-> "salt_a"]}

\* a single writer: one temp-file suffix is enough
SoloTmp == {1}

StoreInit ==
    /\ kdf_params = [p \in Procs |-> test_params]
    /\ salt = [p \in Procs |-> "salt_a"]
    /\ secrets = [p \in Procs |-> NoSecrets]
    /\ pc = [p \in Procs |-> "idle"]
    /\ pending = [p \in Procs |-> NoPending]
    /\ last = [p \in Procs |-> NoLast]
    /\ fs = [f \in Paths |-> NoFile]
    /\ saved = NeverSaved

NotRun == [done |-> FALSE, ok |-> FALSE, env |-> EmptyMap, err |-> <<>>]

ResolveIdle ==
    /\ r_lines = <<>>
    /\ r_local = EmptyMap
    /\ r_global = EmptyMap
    /\ r_out = NotRun

\* the import command is not running
ImportIdle ==
    /\ env_file = <<>>
    /\ backup_file = NoFile
    /\ migrate_backup = NoFile
    /\ env_tmp = NoFile
    /\ import_pc = "idle"
    /\ import_lines = <<>>
    /\ import_password = ""
    /\ import_next = 1

\* a buffer before it is filled, while it holds bytes, and after zeroize
Unset == <<"unset">>

Live(bytes) == <<"live", bytes>>

Zeroed == <<"zeroed">>

\* plaintext_result before cipher.decrypt has run
NoLocal == [ok |-> FALSE, pt |-> <<>>]

\* no call is being followed statement by statement
MemIdle ==
    /\ m_pc = "idle"
    /\ m_password = ""
    /\ m_res = NoLocal
    /\ key_buf = Unset
    /\ json_buf = Unset
    /\ plaintext_buf = Unset
    /\ key_uses = 0

\* the run command is not under way
RunIdle ==
    /\ run_pc = "idle"
    /\ run_cmd = <<>>
    /\ run_password = ""
    /\ env_exists = FALSE
    /\ migrate_tmp = NoFile
    /\ runner = <<>>

\* parse_line has not been called
NotParsed == [ok |-> FALSE, line |-> Passthrough(<<>>), legacy |-> FALSE, err |-> "not called"]

\* parse and templatize have not been called
NotCalled == [called |-> FALSE, ok |-> FALSE, lines |-> <<>>]

TemplateIdle ==
    /\ t_text = <<>>
    /\ t_parsed = NotCalled
    /\ t_lines = NotCalled
    /\ t_again = NotCalled

ParseIdle ==
    /\ p_line = <<>>
    /\ p_out = NotParsed
    /\ TemplateIdle

\* the variables of the template engine, of import and of the statement-level
\* view stay as they are
Frame == UNCHANGED <<resolveVars, importVars, memVars, parseVars, runVars>>

Init == StoreInit /\ ResolveIdle /\ ImportIdle /\ MemIdle /\ RunIdle /\ ParseIdle

StoreNext ==
    \/ (\E c \in Configs : New(1, c.params, c.salt)) /\ Frame
    \/ (\E c \in Configs, pw \in Passwords, n \in Nonces, t \in SoloTmp :
           CreateEmpty(1, c.params, c.salt, pw, n, t)) /\ Frame
    \/ (\E pw \in Passwords : Unlock(1, pw)) /\ Frame
    \/ (\E k \in Keys, v \in Values : Set(1, k, v)) /\ Frame
    \/ (\E k \in Keys : Delete(1, k)) /\ Frame
    \/ (\E k \in Keys : Get(1, k)) /\ Frame
    \/ (List(1)) /\ Frame
    \/ (\E pw \in Passwords, n \in Nonces, t \in SoloTmp :
           \E js \in to_vec(secrets[1].map) : SaveBegin(1, pw, n, t, js)) /\ Frame
    \/ (\E pw \in Passwords : SaveLocked(1, pw)) /\ Frame
    \/ (SaveWriteNonce(1)) /\ Frame
    \/ (SaveWriteCiphertext(1)) /\ Frame
    \/ (SaveSync(1)) /\ Frame
    \/ (SaveRename(1)) /\ Frame
    \/ (SaveIoError(1)) /\ Frame
    \/ (Crash(1)) /\ Frame
    \/ (\E pos \in TamperPositions : Tamper(pos)) /\ Frame

Next == StoreNext

Spec == Init /\ [][Next]_vars

(***************************************************************************)
(* Properties of the store                                                 *)
(***************************************************************************)
\* what a fresh instance (PasswordStore::new, then unlock) gets from a file
FreshUnlock(file, password, slt, params) ==
    UnlockOutcome(file, NoSecrets, password, slt, params)

Intact(file) == Flips(file.data) = 0

\* the file is exactly one nonce followed by one ciphertext sealed with it
Whole(file) ==
    /\ file.exists
    /\ Len(file.data) = 2
    /\ file.data[1].kind = "nonce"
    /\ file.data[2].kind = "ct"
    /\ file.data[2].n = file.data[1].n

SameConfig(p) == salt[p] = saved.salt /\ kdf_params[p] = saved.params

\* C1: at every point of a save, and after a crash between any two of its
\* steps, the file at the store path is absent only if no save ever renamed a
\* file there, and otherwise is the whole nonce || ciphertext of the last save
\* that reached its rename, which the password of that save unlocks to the map
\* that save wrote; it is never a partly written file.
C1_StoreFileAlwaysWhole ==
    /\ ~saved.valid => ~disk.exists
    /\ (saved.valid /\ Intact(disk)) =>
          /\ Whole(disk)
          /\ FreshUnlock(disk, saved.password, saved.salt, saved.params)
                = [res |-> "Ok", secrets |-> SomeSecrets(saved.map)]

\* a save of new content has written half of its temporary file, or has been
\* cut short by a crash, while the store file still holds the previous save
C1_Witness ==
    /\ saved.valid
    /\ Intact(disk)
    /\ \/ /\ pc[1] = "nonce_written"
          /\ Len(fs[pending[1].tmp_path].data) = 1
          /\ pending[1].ciphertext[1].pt # disk.data[2].pt
          /\ pending[1].password # saved.password
       \/ /\ pc[1] = "crashed"
          /\ saved.map # EmptyMap

\* C2: when the file of the last save is unlocked with the password, salt and
\* params of that save, unlock succeeds and the instance holds exactly the map
\* that was in memory when save was called.
C2_RoundTrip ==
    [][\A pw \in Passwords :
          (/\ Unlock(1, pw)
           /\ saved.valid
           /\ Intact(disk)
           /\ pw = saved.password
           /\ SameConfig(1))
          => (/\ last'[1].res = "Ok"
              /\ secrets'[1] = SomeSecrets(saved.map))]_vars

\* a new instance has unlocked a saved map of two keys with different values
C2_Witness ==
    /\ saved.valid
    /\ Intact(disk)
    /\ last[1] = Result("unlock", saved.password, "Ok")
    /\ secrets[1] = SomeSecrets(saved.map)
    /\ DOMAIN saved.map = Keys
    /\ \E k1, k2 \in Keys : saved.map[k1] # saved.map[k2]

\* C3: unlocking a saved store with a password other than the one of the most
\* recent save returns DecryptionFailed (and loads nothing).
C3_WrongPassword ==
    [][\A pw \in Passwords :
          (/\ Unlock(1, pw)
           /\ saved.valid
           /\ pw # saved.password
           /\ SameConfig(1))
          => (/\ last'[1].res = "DecryptionFailed"
              /\ secrets'[1] = secrets[1])]_vars

\* an unlock of an untouched saved store with another password has failed
C3_Witness ==
    /\ saved.valid
    /\ Intact(disk)
    /\ last[1].op = "unlock"
    /\ last[1].pwd # saved.password
    /\ last[1].res = "DecryptionFailed"
    /\ ~secrets[1].some

\* C4: when one byte of the ciphertext region of a saved store file has been
\* changed, unlock with the password of the save returns DecryptionFailed and
\* leaves the in-memory map as it was.
C4_TamperDetected ==
    [][\A pw \in Passwords :
          (/\ Unlock(1, pw)
           /\ saved.valid
           /\ pw = saved.password
           /\ SameConfig(1)
           /\ Cardinality(disk.data[2].x) = 1)
          => (/\ last'[1].res = "DecryptionFailed"
              /\ secrets'[1] = secrets[1])]_vars

\* the right password has been refused on a file whose only altered byte lies
\* in the ciphertext
C4_Witness ==
    /\ saved.valid
    /\ disk.data[1].x = {}
    /\ Cardinality(disk.data[2].x) = 1
    /\ last[1] = Result("unlock", saved.password, "DecryptionFailed")
    /\ ~secrets[1].some

\* C5 as claimed, for two successive saves: a save never writes the nonce the
\* store file already holds.
C5_NoTwoSavesShareANonce ==
    [][(SaveRename(1) /\ disk.exists /\ Intact(disk))
          => disk'.data[1].n # disk.data[1].n]_vars

\* C5, in terms of the RNG: the nonce a save seals with and writes is the one the RNG
\* returned to that save, whatever the store file holds.
C5_NonceIsTheRngDraw ==
    [][/\ \A pw \in Passwords, n \in Nonces, t \in SoloTmp :
            \A js \in to_vec(secrets[1].map) :
                (SaveBegin(1, pw, n, t, js) /\ pc'[1] = "created")
                => (/\ pending'[1].nonce_bytes = n
                    /\ pending'[1].ciphertext[1].n = n)
       /\ SaveRename(1)
            => (/\ disk'.data[1].n = pending[1].nonce_bytes
                /\ disk'.data[2].n = pending[1].nonce_bytes)]_vars

\* a save is about to replace the store file with one of another nonce
C5_Witness ==
    /\ pc[1] = "synced"
    /\ disk.exists
    /\ Intact(disk)
    /\ pending[1].nonce_bytes # disk.data[1].n
    /\ fs[pending[1].tmp_path].data[1].n = pending[1].nonce_bytes

\* C6: when an instance holds what unlock(old) loads from the store file and
\* its save(new), new # old, reaches the rename, a fresh instance with the same
\* salt and params unlocks the new file with new to the same map, unlock(old)
\* returns DecryptionFailed, and the salt and params are those of before.
C6_Rotation ==
    [][\A old \in Passwords :
          (/\ SaveRename(1)
           /\ old # pending[1].password
           /\ disk.exists
           /\ FreshUnlock(disk, old, salt[1], kdf_params[1])
                = [res |-> "Ok", secrets |-> secrets[1]])
          => (/\ FreshUnlock(disk', pending[1].password, salt'[1], kdf_params'[1])
                    = [res |-> "Ok", secrets |-> secrets[1]]
              /\ FreshUnlock(disk', old, salt'[1], kdf_params'[1]).res = "DecryptionFailed"
              /\ salt' = salt
              /\ kdf_params' = kdf_params)]_vars

\* a save has replaced a file that another password opened, keeping its map
C6_Witness ==
    /\ last[1].op = "save"
    /\ last[1].res = "Ok"
    /\ last[1].replaced # {}
    /\ last[1].pwd \notin last[1].replaced
    /\ Intact(disk)
    /\ saved.map # EmptyMap
    /\ FreshUnlock(disk, last[1].pwd, salt[1], kdf_params[1])
          = [res |-> "Ok", secrets |-> SomeSecrets(saved.map)]


\* a call of get, set, delete, list or save by process 1
ApiCall ==
    \/ \E k \in Keys : Get(1, k)
    \/ \E k \in Keys, v \in Values : Set(1, k, v)
    \/ \E k \in Keys : Delete(1, k)
    \/ List(1)
    \/ \E pw \in Passwords : SaveLocked(1, pw)
    \/ \E pw \in Passwords, n \in Nonces, t \in SoloTmp :
          \E js \in to_vec(secrets[1].map) : SaveBegin(1, pw, n, t, js)

\* C11: on a store that no unlock has opened, get, set, delete, list and save
\* return CorruptStore and leave the in-memory state and every file as they were.
C11_LockedStoreRefuses ==
    [][(ApiCall /\ ~secrets[1].some) =>
          /\ last'[1].res = "CorruptStore"
          /\ last'[1].out = <<>>
          /\ secrets' = secrets
          /\ fs' = fs
          /\ pc' = pc]_vars

\* get has been refused on a store whose file exists and whose unlock failed
\* for a wrong password
C11_Witness ==
    /\ last[1].op = "get"
    /\ last[1].res = "CorruptStore"
    /\ ~secrets[1].some
    /\ disk.exists
    /\ saved.valid
    /\ saved.map # EmptyMap

\* a call of get, set, delete, list or unlock by process 1
MemoryCall ==
    \/ \E k \in Keys : Get(1, k)
    \/ \E k \in Keys, v \in Values : Set(1, k, v)
    \/ \E k \in Keys : Delete(1, k)
    \/ List(1)
    \/ \E pw \in Passwords : Unlock(1, pw)

\* C12: get, set, delete, list and unlock leave every file as it was; apart
\* from the environment's byte flips the store file changes only when a save
\* renames, and it then is a whole file that opens, under the password of the
\* save, to the complete in-memory map.
C12_OnlySaveTouchesTheFile ==
    [][/\ MemoryCall => fs' = fs
       /\ (disk' # disk /\ ~(\E pos \in TamperPositions : Tamper(pos))) => SaveRename(1)
       /\ SaveRename(1) =>
             /\ Whole(disk')
             /\ Intact(disk')
             /\ FreshUnlock(disk', pending[1].password, salt[1], kdf_params[1])
                   = [res |-> "Ok", secrets |-> SomeSecrets(secrets[1].map)]]_vars

\* after a save, a set has changed the map in memory and a fresh instance
\* still reads the saved map from the file
C12_Witness ==
    /\ last[1].op = "set"
    /\ last[1].res = "Ok"
    /\ saved.valid
    /\ saved.map # EmptyMap
    /\ Intact(disk)
    /\ LET fresh == FreshUnlock(disk, saved.password, saved.salt, saved.params)
       IN  /\ fresh.res = "Ok"
           /\ fresh.secrets.map = saved.map
           /\ fresh.secrets.map # secrets[1].map

\* C13: when there is no file at the store path, unlock returns Ok for every
\* password, leaves the store unlocked with an empty map (whatever it held)
\* and creates no file.
C13_UnlockWithoutFile ==
    [][\A pw \in Passwords :
          (Unlock(1, pw) /\ ~disk.exists) =>
              /\ last'[1] = Result("unlock", pw, "Ok")
              /\ secrets'[1] = SomeSecrets(EmptyMap)
              /\ fs' = fs
              /\ ~disk'.exists]_vars

\* unlock has succeeded in a directory without any file
C13_Witness ==
    /\ last[1] = Result("unlock", "pw2", "Ok")
    /\ ~disk.exists
    /\ \A f \in Paths : ~fs[f].exists
    /\ secrets[1] = SomeSecrets(EmptyMap)

\* a call that starts from nothing has returned Ok in this step: create_empty,
\* or the save of an instance that holds the empty map while the store path
\* has no file, which is where new and unlock on a missing file lead
FreshStoreWritten ==
    /\ last'[1] # last[1]
    /\ last'[1].res = "Ok"
    /\ \/ last'[1].op = "create_empty"
       \/ /\ last'[1].op = "save"
          /\ ~disk.exists
          /\ secrets[1] = SomeSecrets(EmptyMap)

\* C18: create_empty(path, params, salt, P) and new, unlock(P) on a missing
\* file, save(P) end alike: the store path holds a file that a new instance
\* with the same salt and params unlocks under P to the empty map, and the
\* instance returned is unlocked and holds the empty map.
C18_CreateEmptyIsUnlockThenSave ==
    [][FreshStoreWritten =>
          /\ secrets'[1] = SomeSecrets(EmptyMap)
          /\ fs'[STORE_PATH].exists
          /\ UnlockOutcome(fs'[STORE_PATH], NoSecrets, last'[1].pwd, salt'[1], kdf_params'[1])
                = [res |-> "Ok", secrets |-> SomeSecrets(EmptyMap)]]_vars

\* create_empty has returned Ok
C18_Witness ==
    /\ last[1].op = "create_empty"
    /\ last[1].res = "Ok"
    /\ disk.exists
    /\ secrets[1] = SomeSecrets(EmptyMap)

(***************************************************************************)
(* resolve, applied to every template of at most MaxLines lines over       *)
(* LinePool and to every pair of maps of LocalMaps and GlobalMaps.         *)
(***************************************************************************)
LinePool ==
    {Passthrough(<<"#", " ", "c">>), Passthrough(<<>>),
     Plain(<<"A">>, <<"1">>), Plain(<<"B">>, <<"2">>),
     LocalRef(<<"A">>, <<"x">>), LocalRef(<<"C">>, <<"y">>),
     GlobalRef(<<"B">>, <<"x">>), GlobalRef(<<"D">>, <<"y">>)}

SecretNames == {<<"x">>, <<"y">>}

\* the maps over the names of S whose values tell the map and the name
MapsOver(S, tag) == {[n \in D |-> <<tag>> \o n] : D \in SUBSET S}

LocalMaps == MapsOver(SecretNames, "l")

GlobalMaps == MapsOver(SecretNames, "g")

Templates == UNION {[1..n -> LinePool] : n \in 0..MaxLines}

ResolveInit ==
    /\ r_lines \in Templates
    /\ r_local \in LocalMaps
    /\ r_global \in GlobalMaps
    /\ r_out = NotRun
    /\ StoreInit
    /\ ImportIdle
    /\ MemIdle
    /\ RunIdle
    /\ ParseIdle

Resolve ==
    /\ ~r_out.done
    /\ LET r == resolve(r_lines, r_local, r_global)
       IN  r_out' = [done |-> TRUE, ok |-> r.ok, env |-> r.env, err |-> r.err]
    /\ UNCHANGED <<r_lines, r_local, r_global, storeVars, importVars, memVars, parseVars, runVars>>

ResolveNext == Resolve

SpecResolve == ResolveInit /\ [][ResolveNext]_vars

\* line i is a reference whose secret is not in the map it is looked up in
Unresolved(i) ==
    \/ r_lines[i].variant = "LocalRef" /\ r_lines[i].text \notin DOMAIN r_local
    \/ r_lines[i].variant = "GlobalRef" /\ r_lines[i].text \notin DOMAIN r_global

UnresolvedLines == {i \in 1..Len(r_lines) : Unresolved(i)}

FirstUnresolved == CHOOSE i \in UnresolvedLines : \A j \in UnresolvedLines : i <= j

\* the name SecretNotFound carries for line i
NotFoundName(i) ==
    IF r_lines[i].variant = "GlobalRef" THEN GLOBAL_SLASH \o r_lines[i].text
    ELSE r_lines[i].text

\* C7: if some reference does not resolve, resolve returns SecretNotFound and
\* no map, whatever the lines before the failure contributed; the error names
\* the (first) unresolved secret, with global/ before it for a GlobalRef; with
\* an empty global map every template holding a GlobalRef fails.
C7_AllOrNothing ==
    r_out.done =>
        /\ (UnresolvedLines # {}) =>
              /\ ~r_out.ok
              /\ r_out.env = EmptyMap
              /\ r_out.err = NotFoundName(FirstUnresolved)
        /\ (r_global = EmptyMap /\ \E i \in 1..Len(r_lines) : r_lines[i].variant = "GlobalRef")
              => ~r_out.ok
        /\ (UnresolvedLines = {}) => r_out.ok

\* resolve has failed on a GlobalRef that follows a Plain line and a LocalRef
\* that resolved
C7_Witness ==
    /\ r_out.done
    /\ ~r_out.ok
    /\ Len(r_lines) = 3
    /\ r_lines[1].variant = "Plain"
    /\ r_lines[2].variant = "LocalRef"
    /\ ~Unresolved(2)
    /\ r_lines[3].variant = "GlobalRef"
    /\ r_out.err = GLOBAL_SLASH \o r_lines[3].text

NonPassthrough == {i \in 1..Len(r_lines) : r_lines[i].variant # "Passthrough"}

\* what line i contributes for its key
Contribution(i) ==
    CASE r_lines[i].variant = "Plain" -> r_lines[i].text
      [] r_lines[i].variant = "LocalRef" -> r_local[r_lines[i].text]
      [] r_lines[i].variant = "GlobalRef" -> r_global[r_lines[i].text]

\* C8 as claimed: when every reference resolves, the keys of the map are the
\* keys of the non-Passthrough lines and the key of every such line maps to
\* what that line contributes.
C8_EveryLineDecidesItsKey ==
    (r_out.done /\ UnresolvedLines = {}) =>
        /\ r_out.ok
        /\ DOMAIN r_out.env = {r_lines[i].key : i \in NonPassthrough}
        /\ \A i \in NonPassthrough : r_out.env[r_lines[i].key] = Contribution(i)

\* C8, for templates that may assign a key more than once: when every
\* reference resolves, the keys of the map are the keys of the non-Passthrough
\* lines and every key maps to what the last non-Passthrough line with that
\* key contributes.
C8_LastLineDecidesItsKey ==
    (r_out.done /\ UnresolvedLines = {}) =>
        /\ r_out.ok
        /\ DOMAIN r_out.env = {r_lines[i].key : i \in NonPassthrough}
        /\ \A i \in NonPassthrough :
              (\A j \in NonPassthrough : j > i => r_lines[j].key # r_lines[i].key)
              => r_out.env[r_lines[i].key] = Contribution(i)

\* resolve has succeeded on a template in which a key is assigned twice, the
\* second time by a reference, next to a comment
C8_Witness ==
    /\ r_out.done
    /\ r_out.ok
    /\ Len(r_lines) = 3
    /\ \E i, j, c \in 1..3 :
          /\ i < j
          /\ r_lines[c].variant = "Passthrough"
          /\ r_lines[i].variant = "Plain"
          /\ r_lines[j].variant \in {"LocalRef", "GlobalRef"}
          /\ r_lines[j].key = r_lines[i].key
          /\ r_out.env[r_lines[i].key] = Contribution(j)
          /\ Contribution(j) # Contribution(i)

(***************************************************************************)
(* commands::import::run on a file of at most MaxImportLines lines, in a   *)
(* project whose store file init has created.                              *)
(***************************************************************************)
\* the lines import files are made of: literals (two for the same key, one
\* for a key that differs from it in case only), a comment, a legacy
\* reference and a line without '='
ImportLinePool ==
    {<<"A", "=", "1">>, <<"A", "=", "2">>, <<"a", "=", "3">>,
     <<"#", " ", "c">>,
     <<"K", "=", "e", "v", ":", "/", "/", "z">>,
     <<"o", "o", "p", "s">>}

NEWLINE == <<"\n">>

\* every line of the file ends with a newline
ImportTexts ==
    {join(ls, NEWLINE) \o NEWLINE :
        ls \in UNION {[1..n -> ImportLinePool] : n \in 1..MaxImportLines}}

\* the password init gave the store
InitialPassword == "pw1"

\* what the store holds before the import: nothing, or a secret named a
InitialMaps == {EmptyMap, [k \in {<<"a">>} |-> <<"0">>]}

\* the answers to the migration prompt of maybe_migrate_env_file; "notty" is
\* stdin not being a terminal
Answers == {"y", "n", "notty"}

ImportConfig == CHOOSE c \in Configs : TRUE

\* the store file PasswordStore::create_empty or an earlier save has written
StoreFileOf(m, n, json_bytes) ==
    FileOf(<<NonceChunk(n),
             encrypt(derive_key(InitialPassword, ImportConfig.salt, ImportConfig.params).key,
                     n, json_bytes)>>)

ImportInit ==
    /\ kdf_params = [p \in Procs |-> ImportConfig.params]
    /\ salt = [p \in Procs |-> ImportConfig.salt]
    /\ secrets = [p \in Procs |-> NoSecrets]
    /\ pc = [p \in Procs |-> "idle"]
    /\ pending = [p \in Procs |-> NoPending]
    /\ last = [p \in Procs |-> NoLast]
    /\ \E m \in InitialMaps :
          /\ saved = [valid |-> TRUE, password |-> InitialPassword,
                      salt |-> ImportConfig.salt, params |-> ImportConfig.params, map |-> m]
          /\ \E js \in to_vec(m) :
                fs = [f \in Paths |-> IF f = STORE_PATH THEN StoreFileOf(m, 1, js) ELSE NoFile]
    /\ env_file \in ImportTexts
    /\ backup_file = NoFile
    /\ migrate_backup = NoFile
    /\ env_tmp = NoFile
    /\ import_pc = "start"
    /\ import_lines = <<>>
    /\ import_password = ""
    /\ import_next = 1
    /\ ResolveIdle
    /\ MemIdle
    /\ RunIdle
    /\ ParseIdle

PlainLines(lines) == {i \in 1..Len(lines) : lines[i].variant = "Plain"}

\* maybe_migrate_env_file: the content parse_file goes on with
migrated(content, answer) ==
    IF count_matches(content, EV_COMPAT_PREFIX) > 0 /\ answer = "y"
    THEN replace(content, EV_COMPAT_PREFIX, EN_PREFIX)
    ELSE content

\* import.rs, l.12-28: parse_file (with the migration it offers) and the
\* count of Plain lines
ImportParse(answer) ==
    /\ import_pc = "start"
    /\ LET content == env_file
           legacy_count == count_matches(content, EV_COMPAT_PREFIX)
           accepted == legacy_count > 0 /\ answer = "y"
           new_content == migrated(content, answer)
           parsed == parse(new_content)
           secret_count == Cardinality(PlainLines(parsed.lines))
       IN  /\ migrate_backup' = IF accepted THEN FileOf(content) ELSE migrate_backup
           /\ env_file' = new_content
           /\ import_lines' = parsed.lines
           /\ import_pc' = IF parsed.ok /\ secret_count > 0 THEN "parsed" ELSE "failed"
    /\ UNCHANGED <<backup_file, env_tmp, import_password, import_next, storeVars, resolveVars>>

\* l.40-58: the backup prompt
ImportBackup(wants_backup) ==
    /\ import_pc = "parsed"
    /\ backup_file' = IF wants_backup THEN FileOf(env_file) ELSE backup_file
    /\ import_pc' = "backup_asked"
    /\ UNCHANGED <<env_file, migrate_backup, env_tmp, import_lines, import_password,
                   import_next, storeVars, resolveVars>>

\* l.60-69: the final confirmation
ImportConfirm(yes) ==
    /\ import_pc = "backup_asked"
    /\ import_pc' = IF yes THEN "confirmed" ELSE "cancelled"
    /\ UNCHANGED <<env_file, backup_file, migrate_backup, env_tmp, import_lines,
                   import_password, import_next, storeVars, resolveVars>>

\* l.73-78: the password prompt and PasswordStore::new
ImportOpen(password) ==
    /\ import_pc = "confirmed"
    /\ New(1, ImportConfig.params, ImportConfig.salt)
    /\ import_password' = password
    /\ import_pc' = "opened"
    /\ UNCHANGED <<env_file, backup_file, migrate_backup, env_tmp, import_lines,
                   import_next, resolveVars>>

\* what follows a call whose Result goes through the ? operator
propagate_ignoring_error(res, then) == then

\* the ? operator with a bug: a missing secret does not end the command
propagate_past_missing(res, then) == IF res \in {"Ok", "SecretNotFound"} THEN then ELSE "failed"

propagate(res, then) == IF res = "Ok" THEN then ELSE "failed"

\* l.79-81: store.unlock(&password)?
ImportUnlock ==
    /\ import_pc = "opened"
    /\ Unlock(1, import_password)
    /\ import_pc' = propagate(last'[1].res, "unlocked")
    /\ import_next' = 1
    /\ UNCHANGED <<env_file, backup_file, migrate_backup, env_tmp, import_lines,
                   import_password, resolveVars>>

\* l.86: the name import gives the secret of a Plain line
secret_name_of(key) == to_lowercase(key)

\* l.84-90: one turn of the for loop
ImportSet ==
    /\ import_pc = "unlocked"
    /\ import_next <= Len(import_lines)
    /\ LET line == import_lines[import_next]
       IN  IF line.variant = "Plain"
           THEN /\ Set(1, secret_name_of(line.key), line.text)
                /\ import_pc' = propagate(last'[1].res, "unlocked")
           ELSE UNCHANGED <<storeVars, import_pc>>
    /\ import_next' = import_next + 1
    /\ UNCHANGED <<env_file, backup_file, migrate_backup, env_tmp, import_lines,
                   import_password, resolveVars>>

\* l.92: store.save(&password), up to the creation of its temporary file
ImportSaveBegin(rng_out, rng_name, json_bytes) ==
    /\ import_pc = "unlocked"
    /\ import_next > Len(import_lines)
    /\ SaveBegin(1, import_password, rng_out, rng_name, json_bytes)
    /\ import_pc' = "saving"
    /\ UNCHANGED <<env_file, backup_file, migrate_backup, env_tmp, import_lines,
                   import_password, import_next, resolveVars>>

\* save writes and syncs its temporary file
ImportSaveWrite ==
    /\ import_pc = "saving"
    /\ (SaveWriteNonce(1) \/ SaveWriteCiphertext(1) \/ SaveSync(1))
    /\ UNCHANGED <<importVars, resolveVars>>

\* save renames and returns Ok
ImportSaveRename ==
    /\ import_pc = "saving"
    /\ SaveRename(1)
    /\ import_pc' = propagate(last'[1].res, "saved")
    /\ UNCHANGED <<env_file, backup_file, migrate_backup, env_tmp, import_lines,
                   import_password, import_next, resolveVars>>

\* save returns Err(Io)
ImportSaveIoError ==
    /\ import_pc = "saving"
    /\ SaveIoError(1)
    /\ import_pc' = propagate(last'[1].res, "saved")
    /\ UNCHANGED <<env_file, backup_file, migrate_backup, env_tmp, import_lines,
                   import_password, import_next, resolveVars>>

\* l.95-102: the template is written to the temporary file and synced
ImportWriteTmp ==
    /\ import_pc = "saved"
    /\ env_tmp' = FileOf(join(templatize(import_lines), NEWLINE))
    /\ import_pc' = "written"
    /\ UNCHANGED <<env_file, backup_file, migrate_backup, import_lines, import_password,
                   import_next, storeVars, resolveVars>>

\* l.103: std::fs::rename(&tmp_path, file)
ImportRename ==
    /\ import_pc = "written"
    /\ env_file' = env_tmp.data
    /\ env_tmp' = NoFile
    /\ import_pc' = "done"
    /\ UNCHANGED <<backup_file, migrate_backup, import_lines, import_password,
                   import_next, storeVars, resolveVars>>

\* l.99-103: create, write!, sync_all or rename fails
ImportIoError ==
    /\ import_pc \in {"saved", "written"}
    /\ import_pc' = "failed"
    /\ UNCHANGED <<env_file, backup_file, migrate_backup, env_tmp, import_lines,
                   import_password, import_next, storeVars, resolveVars>>

ImportRunning == {"parsed", "backup_asked", "confirmed", "opened", "unlocked", "saved", "written"}

\* the process stops outside save
ImportStop ==
    /\ import_pc \in ImportRunning
    /\ import_pc' = "stopped"
    /\ UNCHANGED <<env_file, backup_file, migrate_backup, env_tmp, import_lines,
                   import_password, import_next, storeVars, resolveVars>>

\* the process stops inside save
ImportStopInSave ==
    /\ import_pc = "saving"
    /\ Crash(1)
    /\ import_pc' = "stopped"
    /\ UNCHANGED <<env_file, backup_file, migrate_backup, env_tmp, import_lines,
                   import_password, import_next, resolveVars>>

ImportNext ==
    \/ (\E answer \in Answers : ImportParse(answer)) /\ UNCHANGED <<memVars, parseVars, runVars>>
    \/ (\E wants_backup \in BOOLEAN : ImportBackup(wants_backup)) /\ UNCHANGED <<memVars, parseVars, runVars>>
    \/ (\E yes \in BOOLEAN : ImportConfirm(yes)) /\ UNCHANGED <<memVars, parseVars, runVars>>
    \/ (\E password \in Passwords : ImportOpen(password)) /\ UNCHANGED <<memVars, parseVars, runVars>>
    \/ (ImportUnlock) /\ UNCHANGED <<memVars, parseVars, runVars>>
    \/ (ImportSet) /\ UNCHANGED <<memVars, parseVars, runVars>>
    \/ (\E n \in Nonces, t \in SoloTmp :
           \E js \in to_vec(secrets[1].map) : ImportSaveBegin(n, t, js)) /\ UNCHANGED <<memVars, parseVars, runVars>>
    \/ (ImportSaveWrite) /\ UNCHANGED <<memVars, parseVars, runVars>>
    \/ (ImportSaveRename) /\ UNCHANGED <<memVars, parseVars, runVars>>
    \/ (ImportSaveIoError) /\ UNCHANGED <<memVars, parseVars, runVars>>
    \/ (ImportWriteTmp) /\ UNCHANGED <<memVars, parseVars, runVars>>
    \/ (ImportRename) /\ UNCHANGED <<memVars, parseVars, runVars>>
    \/ (ImportIoError) /\ UNCHANGED <<memVars, parseVars, runVars>>
    \/ (ImportStop) /\ UNCHANGED <<memVars, parseVars, runVars>>
    \/ (ImportStopInSave) /\ UNCHANGED <<memVars, parseVars, runVars>>

SpecImport == ImportInit /\ [][ImportNext]_vars

(***************************************************************************)
(* Properties of import                                                    *)
(***************************************************************************)
\* the map a fresh instance reads from the store file with the store's password
StoreHolds ==
    FreshUnlock(disk, InitialPassword, ImportConfig.salt, ImportConfig.params)

\* no later Plain line of the imported file has the key of line i
LastForKey(i) ==
    \A j \in PlainLines(import_lines) : j > i => import_lines[j].key # import_lines[i].key

\* C9: import names secrets consistently. When import has finished, the
\* rewritten file parses, and every line that was Plain(key, value) is now a
\* reference to a secret the saved store holds, whose value (for the last
\* line of a key) is the literal value the imported file gave the key.
C9_ImportNamesConsistently ==
    import_pc = "done" =>
        LET rewritten == parse(env_file)
        IN  /\ rewritten.ok
            /\ StoreHolds.res = "Ok"
            /\ Len(rewritten.lines) = Len(import_lines)
            /\ \A i \in PlainLines(import_lines) :
                  /\ rewritten.lines[i].variant = "LocalRef"
                  /\ rewritten.lines[i].key = import_lines[i].key
                  /\ rewritten.lines[i].text \in DOMAIN StoreHolds.secrets.map
                  /\ LastForKey(i) =>
                        resolve(<<rewritten.lines[i]>>, StoreHolds.secrets.map, EmptyMap)
                            = ResolveOk(MapInsert(EmptyMap, import_lines[i].key,
                                                  import_lines[i].text))

\* line i of what import parsed is a line of the file as it stands
InFile(i) ==
    LET now == parse(env_file)
    IN  \E j \in 1..Len(now.lines) : now.lines[j] = import_lines[i]

\* the value of line i is a value of the saved store
InStore(i) ==
    /\ StoreHolds.res = "Ok"
    /\ \E name \in DOMAIN StoreHolds.secrets.map :
          StoreHolds.secrets.map[name] = import_lines[i].text

\* the file holds, line for line, what import parsed
FileAsParsed == parse(env_file) = [ok |-> TRUE, lines |-> import_lines]

\* C10 as claimed: the file is replaced by its template only once save has
\* returned Ok; until then, and whenever import is declined, fails or stops,
\* the file holds every literal assignment; no literal value is ever absent
\* from both the file and the saved store.
C10_NoLiteralEverLost ==
    /\ import_pc \notin {"start", "done", "failed"} => FileAsParsed
    /\ import_pc # "start" => \A i \in PlainLines(import_lines) : InFile(i) \/ InStore(i)

\* a later Plain line gives the secret name of line i another value
Overwritten(i) ==
    \E j \in PlainLines(import_lines) :
        /\ j > i
        /\ secret_name_of(import_lines[j].key) = secret_name_of(import_lines[i].key)

\* C10, for files that may assign a secret name more than once: the file is
\* replaced by its template only once save has returned Ok; until then, and
\* whenever import is declined, fails or stops, the file holds every literal
\* assignment import parsed; a literal value is absent from both the file and
\* the saved store only if a later Plain line has the same lower-cased key,
\* and then the store holds the value of the last such line.
C10_LiteralKeptUnlessOverwritten ==
    /\ import_pc \notin {"start", "done", "failed"} => FileAsParsed
    /\ import_pc = "failed" => (import_lines = <<>> \/ FileAsParsed)
    /\ import_pc = "done" =>
          /\ last[1].op = "save" /\ last[1].res = "Ok"
          /\ StoreHolds.res = "Ok"
          /\ \A i \in PlainLines(import_lines) :
                /\ secret_name_of(import_lines[i].key) \in DOMAIN StoreHolds.secrets.map
                /\ ~Overwritten(i) =>
                      StoreHolds.secrets.map[secret_name_of(import_lines[i].key)]
                          = import_lines[i].text
    /\ import_pc # "start" =>
          \A i \in PlainLines(import_lines) : InFile(i) \/ InStore(i) \/ Overwritten(i)

\* import has rewritten a file that assigned one secret name twice: the first
\* value is in neither the file nor the store, the second is in the store
C10_Witness ==
    /\ import_pc = "done"
    /\ \E i, j \in PlainLines(import_lines) :
          /\ i < j
          /\ Overwritten(i)
          /\ ~Overwritten(j)
          /\ ~InFile(i)
          /\ ~InStore(i)
          /\ InStore(j)

(***************************************************************************)
(* unlock, applied to whatever the store path can hold: files of any       *)
(* length, files sealed under any password, salt and params, whole or with *)
(* a flipped byte, by an instance configured with any salt and params.     *)
(***************************************************************************)
\* cost values argon2::Params::new rejects
invalid_params == [m_cost |-> 0, t_cost |-> 1, p_cost |-> 1]

\* what Config::kdf_params can hand to PasswordStore::new
UnlockParams == {test_params, DefaultParams, invalid_params}

\* the configurations a save can have run with
SealConfigs == {[params |-> ps, salt |-> slt] : ps \in {test_params, DefaultParams}, slt \in Salts}

\* a JSON object with a member whose value is not a string
NotAMap == <<<<<<"a">>, <<"1">>, <<"x">>>>>>

StoredMaps == {EmptyMap, [k \in {<<"a">>} |-> <<"1">>]}

\* the plaintexts a sealed file can hold
Plaintexts == UNION {to_vec(mp) : mp \in StoredMaps} \cup {NotAMap}

\* files no save has written: empty, one byte short of a nonce, a nonce and
\* nothing else, a nonce and bytes that are no ciphertext
ForeignFiles ==
    {FileOf(<<>>), FileOf(<<Raw(NONCE_LEN - 1)>>), FileOf(<<Raw(NONCE_LEN + TAG_LEN)>>)}
    \cup {FileOf(<<NonceChunk(n)>>) : n \in Nonces}

SealedFile(password, cfg, n, pt) ==
    FileOf(<<NonceChunk(n), encrypt(derive_key(password, cfg.salt, cfg.params).key, n, pt)>>)

\* what the instance holds before the call: nothing, or a map of an earlier unlock
HeldBefore == {NoSecrets, SomeSecrets([k \in {<<"b">>} |-> <<"2">>])}

UnlockStoreInit ==
    /\ \E ps \in UnlockParams : kdf_params = [p \in Procs |-> ps]
    /\ \E slt \in Salts : salt = [p \in Procs |-> slt]
    /\ \E held \in HeldBefore : secrets = [p \in Procs |-> held]
    /\ pc = [p \in Procs |-> "idle"]
    /\ pending = [p \in Procs |-> NoPending]
    /\ last = [p \in Procs |-> NoLast]
    /\ \/ /\ \E f \in ForeignFiles :
                fs = [q \in Paths |-> IF q = STORE_PATH THEN f ELSE NoFile]
          /\ saved = NeverSaved
       \/ \E pw \in Passwords, cfg \in SealConfigs, n \in Nonces, pt \in Plaintexts :
             /\ fs = [q \in Paths |-> IF q = STORE_PATH THEN SealedFile(pw, cfg, n, pt)
                                      ELSE NoFile]
             /\ saved = [valid |-> TRUE, password |-> pw, salt |-> cfg.salt,
                         params |-> cfg.params, map |-> from_slice(pt).map]

UnlockInit == UnlockStoreInit /\ ResolveIdle /\ ImportIdle /\ MemIdle /\ RunIdle /\ ParseIdle

\* the environment flips a byte of a sealed file
TamperSealed(pos) == Whole(disk) /\ Tamper(pos)

UnlockNext ==
    \/ (\E pw \in Passwords : Unlock(1, pw)) /\ Frame
    \/ (\E pos \in TamperPositions : TamperSealed(pos)) /\ Frame

SpecUnlock == UnlockInit /\ [][UnlockNext]_vars

\* the file is the untouched output of a save under this password and this
\* instance's salt and params
SealedFor(file, password) ==
    /\ saved.valid
    /\ Whole(file)
    /\ Intact(file)
    /\ password = saved.password
    /\ SameConfig(1)

\* C14: on an existing file, unlock returns CorruptStore when the file is
\* shorter than a nonce, whatever the KDF params; with valid params it returns
\* DecryptionFailed for a file sealed otherwise than under this password, salt
\* and params and for a file with an altered byte alike, and CorruptStore when
\* the file decrypts to something that is no map of strings.
C14_UnlockFailureClasses ==
    [][\A pw \in Passwords :
          (Unlock(1, pw) /\ disk.exists) =>
              LET res == last'[1].res
                  short == ByteLen(disk.data) < NONCE_LEN
              IN  /\ short => res = "CorruptStore"
                  /\ (~short /\ ~ParamsValid(kdf_params[1])) => res = "Config"
                  /\ (~short /\ ParamsValid(kdf_params[1])) =>
                        /\ ~SealedFor(disk, pw) => res = "DecryptionFailed"
                        /\ (SealedFor(disk, pw) /\ ~from_slice(disk.data[2].pt).ok)
                              => res = "CorruptStore"
                        /\ (SealedFor(disk, pw) /\ from_slice(disk.data[2].pt).ok)
                              => res = "Ok"]_vars

\* unlock with invalid params has returned CorruptStore for a file one byte
\* short of a nonce
C14_Witness ==
    /\ last[1].op = "unlock"
    /\ last[1].res = "CorruptStore"
    /\ ~ParamsValid(kdf_params[1])
    /\ disk = FileOf(<<Raw(NONCE_LEN - 1)>>)

\* C15: unlock of the untouched file of a save returns Ok exactly when the
\* password, the salt and the params are those of the save; with the right
\* password and another salt or other params it fails and loads nothing.
C15_ConfigIsPartOfTheKey ==
    [][\A pw \in Passwords :
          (/\ Unlock(1, pw)
           /\ saved.valid
           /\ Whole(disk)
           /\ Intact(disk)
           /\ from_slice(disk.data[2].pt).ok) =>
              /\ last'[1].res = "Ok" <=>
                    (/\ pw = saved.password
                     /\ salt[1] = saved.salt
                     /\ kdf_params[1] = saved.params)
              /\ last'[1].res # "Ok" => secrets' = secrets
              /\ last'[1].res = "Ok" => secrets'[1] = SomeSecrets(saved.map)]_vars

\* unlock with the right password and the right params but another salt has
\* failed on an untouched file
C15_Witness ==
    /\ last[1].op = "unlock"
    /\ last[1].res = "DecryptionFailed"
    /\ saved.valid
    /\ Whole(disk)
    /\ Intact(disk)
    /\ last[1].pwd = saved.password
    /\ kdf_params[1] = saved.params
    /\ salt[1] # saved.salt

(***************************************************************************)
(* unlock and save of password.rs statement by statement, with the local   *)
(* buffers that hold key material and plaintext: key (l.74 / l.107),       *)
(* plaintext (l.91) and json_bytes (l.104).  A buffer is Unset before it   *)
(* is filled, Live while it holds bytes and Zeroed after zeroize; a buffer *)
(* that is dropped keeps what it held.                                     *)
(***************************************************************************)
KEY_LEN == 32

\* the length of the array derive_key returns: [u8; KEY_LEN]
key_len(key) == KEY_LEN

\* Aes256Gcm::new_from_slice(&key): Err(InvalidLength) unless the slice has
\* the key size of AES-256
new_from_slice(key) == key_len(key) = KEY_LEN

\* zeroize with a bug: the buffer is left as it is
zeroize_noop(buf) == buf

\* Zeroize::zeroize
zeroize(buf) == Zeroed

MemInit == (UnlockStoreInit \/ StoreInit) /\ ResolveIdle /\ ImportIdle /\ MemIdle /\ RunIdle /\ ParseIdle

\* between two calls
MemReady == m_pc \in {"idle", "returned"}

\* return res from the call
MemReturn(op, password, res) ==
    /\ m_pc' = "returned"
    /\ last' = [last EXCEPT ![1] = Result(op, password, res)]

\* a new call starts with fresh locals
MemEnter(password) ==
    /\ MemReady
    /\ m_password' = password
    /\ m_res' = NoLocal
    /\ key_buf' = Unset
    /\ plaintext_buf' = Unset
    /\ key_uses' = 0

\* unlock l.59-63: no file, the store starts empty
MemUnlockCall(password) ==
    /\ MemEnter(password)
    /\ json_buf' = Unset
    /\ IF ~disk.exists
       THEN /\ secrets' = [secrets EXCEPT ![1] = SomeSecrets(EmptyMap)]
            /\ MemReturn("unlock", password, "Ok")
       ELSE /\ m_pc' = "u_read"
            /\ UNCHANGED <<secrets, last>>
    /\ UNCHANGED <<kdf_params, salt, pc, pending, fs, saved>>
    /\ UNCHANGED <<resolveVars, importVars, parseVars, runVars>>

\* unlock l.65-72: std::fs::read and the length check
MemUnlockRead(io_ok) ==
    /\ m_pc = "u_read"
    /\ IF ~io_ok THEN MemReturn("unlock", m_password, "Io")
       ELSE IF ByteLen(disk.data) < NONCE_LEN THEN MemReturn("unlock", m_password, "CorruptStore")
       ELSE m_pc' = "u_derive" /\ UNCHANGED last
    /\ UNCHANGED <<m_password, m_res, key_buf, json_buf, plaintext_buf, key_uses>>
    /\ UNCHANGED <<kdf_params, salt, secrets, pc, pending, fs, saved>>
    /\ UNCHANGED <<resolveVars, importVars, parseVars, runVars>>

\* unlock l.74-78: let mut key = derive_key(..)?
MemUnlockDerive ==
    /\ m_pc = "u_derive"
    /\ LET key == derive_key(m_password, salt[1], kdf_params[1])
       IN  IF ~key.ok
           THEN MemReturn("unlock", m_password, "Config") /\ UNCHANGED key_buf
           ELSE /\ key_buf' = Live(key.key)
                /\ m_pc' = "u_decrypt"
                /\ UNCHANGED last
    /\ UNCHANGED <<m_password, m_res, json_buf, plaintext_buf, key_uses>>
    /\ UNCHANGED <<kdf_params, salt, secrets, pc, pending, fs, saved>>
    /\ UNCHANGED <<resolveVars, importVars, parseVars, runVars>>

\* unlock l.80-87: the cipher is built from the key and decrypts once; the ?
\* after new_from_slice leaves the function from inside the block
MemUnlockDecrypt ==
    /\ m_pc = "u_decrypt"
    /\ IF ~new_from_slice(key_buf[2])
       THEN /\ MemReturn("unlock", m_password, "CorruptStore")
            /\ UNCHANGED <<m_res, plaintext_buf, key_uses>>
       ELSE LET plaintext_result == decrypt(key_buf[2], disk.data[1], Tail(disk.data))
            IN  /\ m_res' = plaintext_result
                /\ plaintext_buf' = IF plaintext_result.ok THEN Live(plaintext_result.pt)
                                    ELSE plaintext_buf
                /\ key_uses' = key_uses + 1
                /\ m_pc' = "u_zeroize"
                /\ UNCHANGED last
    /\ UNCHANGED <<m_password, key_buf, json_buf>>
    /\ UNCHANGED <<kdf_params, salt, secrets, pc, pending, fs, saved>>
    /\ UNCHANGED <<resolveVars, importVars, parseVars, runVars>>

\* unlock l.89: key.zeroize()
MemUnlockZeroize ==
    /\ m_pc = "u_zeroize"
    /\ key_buf' = zeroize(key_buf)
    /\ m_pc' = "u_check"
    /\ UNCHANGED <<m_password, m_res, json_buf, plaintext_buf, key_uses>>
    /\ UNCHANGED storeVars
    /\ UNCHANGED <<resolveVars, importVars, parseVars, runVars>>

\* unlock with a bug: a failed decryption locks the store
MemUnlockLoad_locking ==
    /\ m_pc = "u_check"
    /\ IF ~m_res.ok
       THEN /\ MemReturn("unlock", m_password, "DecryptionFailed")
            /\ secrets' = [secrets EXCEPT ![1] = NoSecrets]
       ELSE LET parsed == from_slice(m_res.pt)
            IN  IF ~parsed.ok
                THEN MemReturn("unlock", m_password, "CorruptStore") /\ UNCHANGED secrets
                ELSE /\ secrets' = [secrets EXCEPT ![1] = SomeSecrets(parsed.map)]
                     /\ MemReturn("unlock", m_password, "Ok")
    /\ UNCHANGED <<m_password, m_res, key_buf, json_buf, plaintext_buf, key_uses>>
    /\ UNCHANGED <<kdf_params, salt, pc, pending, fs, saved>>
    /\ UNCHANGED <<resolveVars, importVars, parseVars, runVars>>

\* unlock l.91-97: plaintext_result?, from_slice, self.secrets = Some(secrets);
\* plaintext is dropped as it is
MemUnlockLoad ==
    /\ m_pc = "u_check"
    /\ IF ~m_res.ok
       THEN MemReturn("unlock", m_password, "DecryptionFailed") /\ UNCHANGED secrets
       ELSE LET parsed == from_slice(m_res.pt)
            IN  IF ~parsed.ok
                THEN MemReturn("unlock", m_password, "CorruptStore") /\ UNCHANGED secrets
                ELSE /\ secrets' = [secrets EXCEPT ![1] = SomeSecrets(parsed.map)]
                     /\ MemReturn("unlock", m_password, "Ok")
    /\ UNCHANGED <<m_password, m_res, key_buf, json_buf, plaintext_buf, key_uses>>
    /\ UNCHANGED <<kdf_params, salt, pc, pending, fs, saved>>
    /\ UNCHANGED <<resolveVars, importVars, parseVars, runVars>>

\* save l.102-105: secrets_ref()? and serde_json::to_vec
MemSaveCall(password, json_bytes) ==
    /\ MemEnter(password)
    /\ IF ~secrets_ref(secrets[1]).ok
       THEN /\ json_bytes = <<>>
            /\ json_buf' = Unset
            /\ MemReturn("save", password, "CorruptStore")
       ELSE /\ json_bytes \in to_vec(secrets[1].map)
            /\ json_buf' = Live(json_bytes)
            /\ m_pc' = "s_derive"
            /\ UNCHANGED last
    /\ UNCHANGED <<kdf_params, salt, secrets, pc, pending, fs, saved>>
    /\ UNCHANGED <<resolveVars, importVars, parseVars, runVars>>

\* save l.107-111: let mut key = derive_key(..)?
MemSaveDerive ==
    /\ m_pc = "s_derive"
    /\ LET key == derive_key(m_password, salt[1], kdf_params[1])
       IN  IF ~key.ok
           THEN MemReturn("save", m_password, "Config") /\ UNCHANGED key_buf
           ELSE /\ key_buf' = Live(key.key)
                /\ m_pc' = "s_encrypt"
                /\ UNCHANGED last
    /\ UNCHANGED <<m_password, m_res, json_buf, plaintext_buf, key_uses>>
    /\ UNCHANGED <<kdf_params, salt, secrets, pc, pending, fs, saved>>
    /\ UNCHANGED <<resolveVars, importVars, parseVars, runVars>>

\* save l.113-123: the nonce is drawn, the cipher is built from the key and
\* encrypts json_bytes once
MemSaveEncrypt(rng_out) ==
    /\ m_pc = "s_encrypt"
    /\ IF ~new_from_slice(key_buf[2])
       THEN /\ MemReturn("save", m_password, "CorruptStore")
            /\ UNCHANGED <<pending, key_uses>>
       ELSE LET nonce_bytes == fill_bytes(rng_out, disk)
            IN  /\ pending' = [pending EXCEPT ![1] =
                        [password |-> m_password,
                         nonce_bytes |-> nonce_bytes,
                         ciphertext |-> <<encrypt(key_buf[2], nonce_bytes, json_buf[2])>>,
                         tmp_path |-> STORE_PATH,
                         handle |-> STORE_PATH,
                         shared |-> FALSE]]
                /\ key_uses' = key_uses + 1
                /\ m_pc' = "s_zeroize_key"
                /\ UNCHANGED last
    /\ UNCHANGED <<m_password, m_res, key_buf, json_buf, plaintext_buf>>
    /\ UNCHANGED <<kdf_params, salt, secrets, pc, fs, saved>>
    /\ UNCHANGED <<resolveVars, importVars, parseVars, runVars>>

\* save l.125: key.zeroize()
MemSaveZeroizeKey ==
    /\ m_pc = "s_zeroize_key"
    /\ key_buf' = zeroize(key_buf)
    /\ m_pc' = "s_zeroize_json"
    /\ UNCHANGED <<m_password, m_res, json_buf, plaintext_buf, key_uses>>
    /\ UNCHANGED storeVars
    /\ UNCHANGED <<resolveVars, importVars, parseVars, runVars>>

\* save l.126: json_bytes.zeroize()
MemSaveZeroizeJson ==
    /\ m_pc = "s_zeroize_json"
    /\ json_buf' = zeroize(json_buf)
    /\ m_pc' = "s_write"
    /\ UNCHANGED <<m_password, m_res, key_buf, plaintext_buf, key_uses>>
    /\ UNCHANGED storeVars
    /\ UNCHANGED <<resolveVars, importVars, parseVars, runVars>>

\* save l.128-146: the temporary file is written, synced and renamed over the
\* store file, or one of these calls fails and save returns Err(Io)
MemSaveWrite(rng_name, io_ok) ==
    /\ m_pc = "s_write"
    /\ IF io_ok
       THEN LET path == write_path(rng_name)
                written == [fs EXCEPT ![path] =
                               FileOf(<<NonceChunk(pending[1].nonce_bytes)>>
                                      \o pending[1].ciphertext)]
            IN  /\ fs' = rename(written, path, STORE_PATH)
                /\ saved' = [valid |-> TRUE, password |-> m_password, salt |-> salt[1],
                             params |-> kdf_params[1], map |-> secrets[1].map]
                /\ MemReturn("save", m_password, "Ok")
       ELSE /\ MemReturn("save", m_password, "Io")
            /\ UNCHANGED <<fs, saved>>
    /\ pending' = [pending EXCEPT ![1] = NoPending]
    /\ UNCHANGED <<m_password, m_res, key_buf, json_buf, plaintext_buf, key_uses>>
    /\ UNCHANGED <<kdf_params, salt, secrets, pc>>
    /\ UNCHANGED <<resolveVars, importVars, parseVars, runVars>>

MemNext ==
    \/ \E pw \in Passwords : MemUnlockCall(pw)
    \/ \E ok \in BOOLEAN : MemUnlockRead(ok)
    \/ MemUnlockDerive
    \/ MemUnlockDecrypt
    \/ MemUnlockZeroize
    \/ MemUnlockLoad
    \/ \E pw \in Passwords : \E js \in to_vec(secrets[1].map) \cup {<<>>} : MemSaveCall(pw, js)
    \/ MemSaveDerive
    \/ \E n \in Nonces : MemSaveEncrypt(n)
    \/ MemSaveZeroizeKey
    \/ MemSaveZeroizeJson
    \/ \E t \in SoloTmp, ok \in BOOLEAN : MemSaveWrite(t, ok)

SpecMem == MemInit /\ [][MemNext]_vars

\* the call has returned
MemReturned(op) == m_pc = "returned" /\ last[1].op = op

\* C16: when unlock or save returns after derive_key has handed out a key,
\* the key buffer has been zeroed and the key has been used for exactly one
\* encrypt or decrypt; a zeroed key is never used again.
C16_KeyWipedOnEveryExit ==
    (MemReturned("unlock") \/ MemReturned("save")) =>
        IF key_buf = Unset THEN key_uses = 0
        ELSE key_buf = Zeroed /\ key_uses = 1

\* unlock has returned DecryptionFailed after the key was derived
C16_Witness ==
    /\ MemReturned("unlock")
    /\ last[1].res = "DecryptionFailed"
    /\ key_buf = Zeroed
    /\ key_uses = 1

\* C17 as claimed: when unlock or save returns, neither the serialization
\* buffer of save nor the decrypted plaintext of unlock still holds bytes.
C17_PlaintextBuffersWiped ==
    (MemReturned("unlock") \/ MemReturned("save")) =>
        /\ json_buf \in {Unset, Zeroed}
        /\ plaintext_buf \in {Unset, Zeroed}

(***************************************************************************)
(* Two processes on one store: each makes its own PasswordStore, unlocks,  *)
(* changes its map and saves once (password.rs has no lock).  The steps of *)
(* the two saves interleave freely, and each save draws its temporary-file *)
(* suffix from the RNG (l.136), so the two names can be the same.          *)
(***************************************************************************)
RaceProcs == {1, 2}

RacePassword == "pw1"

OriginalMap == [k \in {<<"a">>} |-> <<"1">>]

\* the store file both processes find
OriginalFile ==
    SealedFile(RacePassword, [params |-> test_params, salt |-> "salt_a"], 1,
               CHOOSE pt \in to_vec(OriginalMap) : TRUE)

RaceInit ==
    /\ kdf_params = [p \in RaceProcs |-> test_params]
    /\ salt = [p \in RaceProcs |-> "salt_a"]
    /\ secrets = [p \in RaceProcs |-> NoSecrets]
    /\ pc = [p \in RaceProcs |-> "idle"]
    /\ pending = [p \in RaceProcs |-> NoPending]
    /\ last = [p \in RaceProcs |-> NoLast]
    /\ fs = [q \in Paths |-> IF q = STORE_PATH THEN OriginalFile ELSE NoFile]
    /\ saved = [valid |-> TRUE, password |-> RacePassword, salt |-> "salt_a",
                params |-> test_params, map |-> OriginalMap]
    /\ ResolveIdle
    /\ ImportIdle
    /\ MemIdle
    /\ RunIdle
    /\ ParseIdle

\* what each process changes before it saves
RaceEdit == [p \in RaceProcs |->
                IF p = 1 THEN [key |-> <<"a">>, value |-> <<"2">>]
                ELSE [key |-> <<"b">>, value |-> <<"2">>]]

RaceUnlock(p) == last[p].op = "new" /\ Unlock(p, RacePassword)

RaceSet(p) ==
    /\ last[p].op = "unlock"
    /\ last[p].res = "Ok"
    /\ Set(p, RaceEdit[p].key, RaceEdit[p].value)

RaceSave(p, rng_out, rng_name) ==
    /\ last[p].op = "set"
    /\ \E json_bytes \in to_vec(secrets[p].map) :
          SaveBegin(p, RacePassword, rng_out, rng_name, json_bytes)

RaceNext ==
    \/ (\E p \in RaceProcs : RaceUnlock(p)) /\ Frame
    \/ (\E p \in RaceProcs : RaceSet(p)) /\ Frame
    \/ (\E p \in RaceProcs, n \in Nonces, t \in TmpNames : RaceSave(p, n, t)) /\ Frame
    \/ (\E p \in RaceProcs : SaveWriteNonce(p)) /\ Frame
    \/ (\E p \in RaceProcs : SaveWriteCiphertext(p)) /\ Frame
    \/ (\E p \in RaceProcs : SaveSync(p)) /\ Frame
    \/ (\E p \in RaceProcs : SaveRename(p)) /\ Frame
    \/ (\E p \in RaceProcs : SaveIoError(p)) /\ Frame

SpecRace == RaceInit /\ [][RaceNext]_vars

\* the bytes p's save writes: its nonce, then its ciphertext
Output(p) == <<NonceChunk(pending[p].nonce_bytes)>> \o pending[p].ciphertext

\* C19 as claimed: the store file changes only when a save renames, and it
\* then is exactly the output of that save, so that it always is the original
\* file or the complete output of one save and, once both saves have
\* completed, the output of the save that renamed last.
C19_StoreFileIsOneSavesOutput ==
    [][disk' # disk =>
          \E p \in RaceProcs : SaveRename(p) /\ disk'.data = Output(p)]_vars

\* Apart from shared temporary files the store file is replaced whole: a
\* step of a process whose temporary file no other save has opened changes
\* the store file only by the rename, and the store file then is exactly the
\* output of that save and opens to the map of that process.
UnsharedSaveReplacesWhole ==
    [][/\ disk' # disk => \E p \in RaceProcs : pc'[p] # pc[p]
       /\ \A p \in RaceProcs :
             (pc'[p] # pc[p] /\ ~pending[p].shared /\ disk' # disk) =>
                 /\ SaveRename(p)
                 /\ disk'.data = Output(p)
                 /\ UnlockOutcome(disk', NoSecrets, RacePassword, salt[p], kdf_params[p])
                       = [res |-> "Ok", secrets |-> SomeSecrets(secrets[p].map)]]_vars

\* both saves drew the same suffix: process 1 has returned Ok from its save
\* and the store file is neither the original nor the output of a save, while
\* process 2 still holds the file open for writing
C19_Witness ==
    /\ last[1].op = "save"
    /\ last[1].res = "Ok"
    /\ pc[2] \in InSave
    /\ pending[2].handle = STORE_PATH
    /\ disk # OriginalFile
    /\ ~(Whole(disk) /\ Intact(disk))

(***************************************************************************)
(* parse_line of env_template.rs on lines put together from the pieces the *)
(* parser tells apart: whitespace, the comment sign, the equals sign,      *)
(* letters, and the reference prefixes.                                    *)
(***************************************************************************)
MaxPieces == 5

LinePieces ==
    {<<" ">>, <<"#">>, <<"=">>, <<"A">>, <<"x">>,
     EN_PREFIX, EV_COMPAT_PREFIX, GLOBAL_SLASH}

RECURSIVE Concat(_)
Concat(pieces) == IF pieces = <<>> THEN <<>> ELSE Head(pieces) \o Concat(Tail(pieces))

\* every line of at most MaxPieces pieces
ParseLines == {Concat(ps) : ps \in UNION {[1..n -> LinePieces] : n \in 0..MaxPieces}}

ParseInit ==
    /\ StoreInit
    /\ ResolveIdle
    /\ ImportIdle
    /\ MemIdle
    /\ RunIdle
    /\ p_line \in ParseLines
    /\ p_out = NotParsed
    /\ TemplateIdle

ParseLine ==
    /\ p_out = NotParsed
    /\ p_out' = parse_line(p_line)
    /\ UNCHANGED <<p_line, t_text, t_parsed, t_lines, t_again>>
    /\ UNCHANGED <<storeVars, resolveVars, importVars, memVars, runVars>>

ParseNext == ParseLine

SpecParse == ParseInit /\ [][ParseNext]_vars

\* parse_line has returned
Parsed == p_out # NotParsed

\* the line holds nothing but whitespace
Blank(line) == \A i \in 1..Len(line) : line[i] \in WhiteSpace

\* the first character of the line is the comment sign
Comment(line) == line # <<>> /\ line[1] = "#"

\* C20: a line is parsed as Passthrough exactly when it holds nothing but
\* whitespace or its first character is #, and the Passthrough carries the
\* line as it was given, trailing whitespace included.
C20_PassthroughIffBlankOrComment ==
    Parsed =>
        /\ (p_out.ok /\ p_out.line.variant = "Passthrough") <=> (Blank(p_line) \/ Comment(p_line))
        /\ (Blank(p_line) \/ Comment(p_line)) =>
              p_out = LineOk(Passthrough(p_line), FALSE)

\* a comment followed by whitespace has been parsed and kept as it was
C20_Witness ==
    /\ Parsed
    /\ Comment(p_line)
    /\ Len(p_line) > 1
    /\ p_line[Len(p_line)] \in WhiteSpace
    /\ p_out.line = Passthrough(p_line)

\* parse_line has returned an assignment
Assignment == Parsed /\ p_out.ok /\ p_out.line.variant # "Passthrough"

\* the value text of a parsed assignment: the literal of a Plain line, the
\* prefix that was stripped and the secret name of a reference
ValueOf(out) ==
    CASE out.line.variant = "Plain" -> out.line.text
      [] out.line.variant = "LocalRef" ->
            (IF out.legacy THEN EV_COMPAT_PREFIX ELSE EN_PREFIX) \o out.line.text
      [] out.line.variant = "GlobalRef" ->
            (IF out.legacy THEN EV_COMPAT_GLOBAL_PREFIX ELSE GLOBAL_PREFIX) \o out.line.text

\* C21: for every line parsed as an assignment, with eq the position of the
\* first = and end the position of the last character that is no whitespace,
\* the key is the text before eq without the whitespace on either side of it,
\* is not empty and holds no =, and the value is the text from eq + 1 to end
\* as it stands, further = included.
C21_KeyBeforeFirstEqualsValueVerbatim ==
    Assignment =>
        \E eq \in 1..Len(p_line) : \E end \in eq..Len(p_line) :
            /\ p_line[eq] = "="
            /\ \A j \in 1..(eq - 1) : p_line[j] # "="
            /\ p_line[end] \notin WhiteSpace
            /\ \A j \in (end + 1)..Len(p_line) : p_line[j] \in WhiteSpace
            /\ ValueOf(p_out) = SubSeq(p_line, eq + 1, end)
            /\ \E a \in 1..(eq - 1) : \E b \in a..(eq - 1) :
                  /\ p_line[a] \notin WhiteSpace
                  /\ p_line[b] \notin WhiteSpace
                  /\ \A j \in 1..(a - 1) : p_line[j] \in WhiteSpace
                  /\ \A j \in (b + 1)..(eq - 1) : p_line[j] \in WhiteSpace
                  /\ p_out.line.key = SubSeq(p_line, a, b)
                  /\ p_out.line.key # <<>>
                  /\ \A j \in 1..Len(p_out.line.key) : p_out.line.key[j] # "="

\* a line with whitespace before its key and a second = has been parsed: the
\* second = is part of the value
C21_Witness ==
    /\ Assignment
    /\ p_line[1] \in WhiteSpace
    /\ p_out.line.variant = "Plain"
    /\ \E j \in 1..Len(p_out.line.text) : p_out.line.text[j] = "="

\* the line gets past the key: it is no comment, and a character that is no
\* whitespace stands before its first =
Shaped(line) ==
    /\ ~Comment(line)
    /\ \E eq \in 1..Len(line) :
          /\ line[eq] = "="
          /\ \E j \in 1..(eq - 1) : line[j] \notin WhiteSpace /\ line[j] # "="
          /\ \A j \in 1..(eq - 1) : line[j] # "="

\* the text from behind the first = to the last character that is no whitespace
RawValue(line) ==
    LET eq == CHOOSE i \in 1..Len(line) : line[i] = "=" /\ \A j \in 1..(i - 1) : line[j] # "="
        end == CHOOSE e \in eq..Len(line) :
                  line[e] \notin WhiteSpace /\ \A j \in (e + 1)..Len(line) : line[j] \in WhiteSpace
    IN  SubSeq(line, eq + 1, end)

\* the text of str behind its first n characters
After(str, n) == SubSeq(str, n + 1, Len(str))

\* the line was parsed as a reference of this variant to the name behind the
\* prefix, or was refused because that name is empty
ReferenceOrError(out, variant, name) ==
    IF name = <<>> THEN ~out.ok
    ELSE out.ok /\ out.line.variant = variant /\ out.line.text = name

\* C22 as claimed: a value that starts with en://global/ gives a GlobalRef, any
\* other value that starts with en:// a LocalRef, and every other value a
\* Plain line with the whole value; an empty name is an error.
C22_ClassifiedByCurrentPrefixOnly ==
    (Parsed /\ Shaped(p_line)) =>
        LET value == RawValue(p_line)
        IN  IF starts_with(value, GLOBAL_PREFIX)
            THEN ReferenceOrError(p_out, "GlobalRef", After(value, Len(GLOBAL_PREFIX)))
            ELSE IF starts_with(value, EN_PREFIX)
            THEN ReferenceOrError(p_out, "LocalRef", After(value, Len(EN_PREFIX)))
            ELSE p_out.ok /\ p_out.line.variant = "Plain" /\ p_out.line.text = value

\* C22: a value that starts with en://global/ gives a GlobalRef to the rest of
\* the value, any other value that starts with en:// a LocalRef to the rest,
\* and an empty rest is an error in both cases; a value that starts with
\* neither en:// nor ev:// gives a Plain line with the whole value, and a value
\* that starts with ev:// is never Plain.
C22_ClassifiedByPrefixGlobalFirst ==
    (Parsed /\ Shaped(p_line)) =>
        LET value == RawValue(p_line)
        IN  IF starts_with(value, GLOBAL_PREFIX)
            THEN ReferenceOrError(p_out, "GlobalRef", After(value, Len(GLOBAL_PREFIX)))
            ELSE IF starts_with(value, EN_PREFIX)
            THEN ReferenceOrError(p_out, "LocalRef", After(value, Len(EN_PREFIX)))
            ELSE IF starts_with(value, EV_COMPAT_PREFIX)
            THEN ~p_out.ok \/ p_out.line.variant \in {"LocalRef", "GlobalRef"}
            ELSE p_out.ok /\ p_out.line.variant = "Plain" /\ p_out.line.text = value

\* K=en://global/N has been parsed as a GlobalRef to N
C22_Witness ==
    /\ Parsed
    /\ Shaped(p_line)
    /\ starts_with(RawValue(p_line), GLOBAL_PREFIX)
    /\ p_out.ok
    /\ p_out.line.variant = "GlobalRef"
    /\ p_out.line.text = After(RawValue(p_line), Len(GLOBAL_PREFIX))

\* the value of the line starts with the legacy token
LegacyLine(line) == Shaped(line) /\ starts_with(RawValue(line), EV_COMPAT_PREFIX)

\* the same line written with the current token: ev:// behind the first =
\* becomes en://
WithCurrentToken(line) ==
    LET eq == CHOOSE i \in 1..Len(line) : line[i] = "=" /\ \A j \in 1..(i - 1) : line[j] # "="
    IN  SubSeq(line, 1, eq) \o EN_PREFIX \o After(line, eq + Len(EV_COMPAT_PREFIX))

\* C23: a line whose value starts with ev:// parses as the same line written
\* with en:// does: both fail, or both give the same EnvLine (variant, key and
\* secret name), so that resolve gives the same result for both under every
\* pair of secret maps.
C23_LegacyTokenIsSynonym ==
    (Parsed /\ LegacyLine(p_line)) =>
        LET current == parse_line(WithCurrentToken(p_line))
        IN  /\ p_out.ok = current.ok
            /\ p_out.line = current.line
            /\ p_out.ok =>
                  /\ p_out.line.variant \in {"LocalRef", "GlobalRef"}
                  /\ \A l \in LocalMaps, g \in GlobalMaps :
                        resolve(<<p_out.line>>, l, g) = resolve(<<current.line>>, l, g)

\* K=ev://global/N has been parsed as a GlobalRef to N
C23_Witness ==
    /\ Parsed
    /\ LegacyLine(p_line)
    /\ p_out.ok
    /\ p_out.legacy
    /\ p_out.line.variant = "GlobalRef"
    /\ p_out.line = parse_line(WithCurrentToken(p_line)).line
    /\ p_out.line.text = After(RawValue(p_line), Len(EV_COMPAT_GLOBAL_PREFIX))

(***************************************************************************)
(* parse, templatize and parse again (env_template.rs l.27-32, l.224-236;  *)
(* import.rs l.95-96 joins the lines of templatize with \n) on texts of a  *)
(* few lines.                                                              *)
(***************************************************************************)
MaxTextLines == 3

TextLinePool ==
    {<<>>,
     <<"#", " ", "c">>,
     <<"A", "=", "1">>,
     <<"B", "=">> \o EN_PREFIX \o <<"x">>,
     <<" ", "A", " ", "=">> \o GLOBAL_PREFIX \o <<"y">>,
     <<"B", "=">> \o EV_COMPAT_PREFIX \o <<"x">>,
     <<" ", "#", "A", "=">> \o EN_PREFIX \o <<"x">>,
     <<"o", "o", "p", "s">>,
     <<" ", "=", "1">>,
     <<"A", "=">> \o EN_PREFIX}

\* the texts of at most MaxTextLines lines, with and without a final newline
Texts ==
    LET bodies == {join(ls, NEWLINE) : ls \in UNION {[1..n -> TextLinePool] : n \in 0..MaxTextLines}}
    IN  bodies \cup {b \o NEWLINE : b \in bodies}

TemplateInit ==
    /\ StoreInit
    /\ ResolveIdle
    /\ ImportIdle
    /\ MemIdle
    /\ RunIdle
    /\ p_line = <<>>
    /\ p_out = NotParsed
    /\ t_text \in Texts
    /\ t_parsed = NotCalled
    /\ t_lines = NotCalled
    /\ t_again = NotCalled

\* Result<Vec<_>, _> of parse, Vec<String> of templatize
Called(ok, lines) == [called |-> TRUE, ok |-> ok, lines |-> lines]

\* parse(content)
ParseText ==
    /\ ~t_parsed.called
    /\ t_parsed' = Called(parse(t_text).ok, parse(t_text).lines)
    /\ UNCHANGED <<p_line, p_out, t_text, t_lines, t_again>>
    /\ UNCHANGED <<storeVars, resolveVars, importVars, memVars, runVars>>

\* templatize(&lines)
Templatize ==
    /\ t_parsed.called
    /\ t_parsed.ok
    /\ ~t_lines.called
    /\ t_lines' = Called(TRUE, templatize(t_parsed.lines))
    /\ UNCHANGED <<p_line, p_out, t_text, t_parsed, t_again>>
    /\ UNCHANGED <<storeVars, resolveVars, importVars, memVars, runVars>>

\* parse(&new_lines.join("\n"))
ParseAgain ==
    /\ t_lines.called
    /\ ~t_again.called
    /\ LET output == join(t_lines.lines, NEWLINE)
       IN  t_again' = Called(parse(output).ok, parse(output).lines)
    /\ UNCHANGED <<p_line, p_out, t_text, t_parsed, t_lines>>
    /\ UNCHANGED <<storeVars, resolveVars, importVars, memVars, runVars>>

TemplateNext ==
    \/ ParseText
    \/ Templatize
    \/ ParseAgain

SpecTemplate == TemplateInit /\ [][TemplateNext]_vars

\* the lines of a text: the stretches between its newlines; a newline at the
\* very end starts no further line
RECURSIVE InputLines(_)
InputLines(text) ==
    IF text = <<>> THEN <<>>
    ELSE IF \E i \in 1..Len(text) : text[i] = NEWLINE[1]
    THEN LET nl == CHOOSE i \in 1..Len(text) : text[i] = NEWLINE[1] /\ \A j \in 1..(i - 1) : text[j] # NEWLINE[1]
         IN  <<SubSeq(text, 1, nl - 1)>> \o InputLines(After(text, nl))
    ELSE <<text>>

\* the line is neither blank nor a comment and has no =, nothing but
\* whitespace before its first =, or a reference prefix with nothing behind it
Malformed(line) ==
    /\ ~Blank(line)
    /\ ~Comment(line)
    /\ \/ \A i \in 1..Len(line) : line[i] # "="
       \/ ~Shaped(line)
       \/ /\ Shaped(line)
          /\ RawValue(line) \in {EN_PREFIX, GLOBAL_PREFIX, EV_COMPAT_PREFIX, EV_COMPAT_GLOBAL_PREFIX}

\* C24: parse fails exactly when a line of the text is malformed, and then
\* returns no lines; otherwise it returns one EnvLine for every line of the
\* text, the i-th being what parse_line gives for the i-th line; the empty
\* text gives the empty sequence.
C24_ParseAllOrNothingInOrder ==
    t_parsed.called =>
        LET input == InputLines(t_text)
        IN  /\ ~t_parsed.ok <=> \E i \in 1..Len(input) : Malformed(input[i])
            /\ ~t_parsed.ok => t_parsed.lines = <<>>
            /\ t_parsed.ok =>
                  /\ Len(t_parsed.lines) = Len(input)
                  /\ \A i \in 1..Len(input) :
                        /\ parse_line(input[i]).ok
                        /\ t_parsed.lines[i] = parse_line(input[i]).line
            /\ t_text = <<>> => t_parsed.ok /\ t_parsed.lines = <<>>

\* a text whose last line is malformed, after a well-formed assignment, has
\* been refused whole
C24_Witness ==
    /\ t_parsed.called
    /\ ~t_parsed.ok
    /\ t_parsed.lines = <<>>
    /\ Len(InputLines(t_text)) > 1
    /\ parse_line(InputLines(t_text)[1]).ok
    /\ parse_line(InputLines(t_text)[1]).line.variant = "Plain"
    /\ Malformed(InputLines(t_text)[Len(InputLines(t_text))])

\* C25: templatize returns one text line for every EnvLine, in order:
\* Passthrough(s) gives s, Plain(k, v) gives k=en://k, LocalRef(k, n) gives
\* k=en://n and GlobalRef(k, n) gives k=en://global/n.
C25_TemplatizeLineByLine ==
    t_lines.called =>
        /\ Len(t_lines.lines) = Len(t_parsed.lines)
        /\ \A i \in 1..Len(t_parsed.lines) :
              LET line == t_parsed.lines[i]
                  out == t_lines.lines[i]
              IN  /\ line.variant = "Passthrough" => out = line.text
                  /\ line.variant = "Plain" =>
                        out = line.key \o <<"=", "e", "n", ":", "/", "/">> \o line.key
                  /\ line.variant = "LocalRef" =>
                        out = line.key \o <<"=", "e", "n", ":", "/", "/">> \o line.text
                  /\ line.variant = "GlobalRef" =>
                        out = line.key
                              \o <<"=", "e", "n", ":", "/", "/", "g", "l", "o", "b", "a", "l", "/">>
                              \o line.text

\* a comment, a Plain line and a GlobalRef have been templatized
C25_Witness ==
    /\ t_lines.called
    /\ Len(t_lines.lines) = 3
    /\ t_parsed.lines[1].variant = "Passthrough"
    /\ t_parsed.lines[1].text # <<>>
    /\ t_parsed.lines[2].variant = "Plain"
    /\ t_parsed.lines[2].text # t_parsed.lines[2].key
    /\ t_parsed.lines[3].variant = "GlobalRef"
    /\ t_lines.lines[1] = t_parsed.lines[1].text

\* a text that parses and whose assignments are all references
AlreadyTemplatized ==
    /\ t_parsed.called
    /\ t_parsed.ok
    /\ \A i \in 1..Len(t_parsed.lines) : t_parsed.lines[i].variant # "Plain"

\* C26: for an already-templatized text, parsing the newline-joined output
\* of templatize(parse(text)) succeeds and gives, line for line, the variant,
\* key and secret name that parse(text) gave.
C26_TemplatizeParseIdempotent ==
    (AlreadyTemplatized /\ t_again.called) =>
        /\ t_again.ok
        /\ Len(t_again.lines) = Len(t_parsed.lines)
        /\ \A i \in 1..Len(t_parsed.lines) :
              /\ t_again.lines[i].variant = t_parsed.lines[i].variant
              /\ t_again.lines[i].key = t_parsed.lines[i].key
              /\ t_again.lines[i].text = t_parsed.lines[i].text

\* a LocalRef whose key starts with # came back as a comment
C26_Witness ==
    /\ AlreadyTemplatized
    /\ t_again.called
    /\ t_again.ok
    /\ Len(t_again.lines) = Len(t_parsed.lines)
    /\ \E i \in 1..Len(t_parsed.lines) :
          /\ t_parsed.lines[i].variant = "LocalRef"
          /\ t_parsed.lines[i].key = <<"#", "A">>
          /\ t_again.lines[i].variant = "Passthrough"

(***************************************************************************)
(* The Store trait's map operations on one instance, with keys that differ  *)
(* in case and length.  No file is ever written, so unlock finds no store   *)
(* file and loads an empty map.                                             *)
(***************************************************************************)
MapKeys == {<<"a">>, <<"a", "b">>, <<"B">>, <<"b">>}

\* the empty string is a value like any other
MapValues == {<<>>, <<"1">>, <<"2">>}

MapNext ==
    \/ (\E pw \in Passwords : Unlock(1, pw)) /\ Frame
    \/ (\E k \in MapKeys, v \in MapValues : Set(1, k, v)) /\ Frame
    \/ (\E k \in MapKeys : Delete(1, k)) /\ Frame
    \/ (\E k \in MapKeys : Get(1, k)) /\ Frame
    \/ (List(1)) /\ Frame

SpecMap == Init /\ [][MapNext]_vars

\* the call that just returned was op, made on an unlocked store
Answered(op) == secrets[1].some /\ last'[1].op = op

\* a's code points come before b's at the first place they differ, or a is
\* a proper prefix of b
Lexicographic(a, b) ==
    \E n \in 0..Len(a) :
        /\ n <= Len(b)
        /\ \A i \in 1..n : a[i] = b[i]
        /\ IF n = Len(a) THEN n < Len(b)
           ELSE n < Len(b) /\ CharRank(a[n + 1]) < CharRank(b[n + 1])

\* C27: on an unlocked store, list returns exactly the keys of the map, each
\* once, in ascending lexicographic order, whatever order the map holds them
\* in.
C27_ListSortedKeys ==
    [][(Answered("list") /\ List(1)) =>
          LET out == last'[1].out
          IN  /\ last'[1].res = "Ok"
              /\ {out[i] : i \in 1..Len(out)} = DOMAIN secrets[1].map
              /\ Len(out) = Cardinality(DOMAIN secrets[1].map)
              /\ \A i \in 1..Len(out) - 1 : Lexicographic(out[i], out[i + 1])
              /\ secrets' = secrets]_vars

\* all four keys are in the map and list has put the upper-case key first
\* and the longer key after its prefix
C27_Witness ==
    /\ secrets[1].some
    /\ DOMAIN secrets[1].map = MapKeys
    /\ last[1].op = "list"
    /\ last[1].out = << <<"B">>, <<"a">>, <<"a", "b">>, <<"b">> >>

Present(k) == k \in DOMAIN secrets[1].map

PresentAfter(k) == k \in DOMAIN secrets'[1].map

\* key k is in the map after the step exactly if it was before, with the
\* value it had
Kept(k) ==
    /\ PresentAfter(k) <=> Present(k)
    /\ Present(k) => secrets'[1].map[k] = secrets[1].map[k]

\* C28: on an unlocked store delete(k) returns true exactly when k is in the
\* map, and k is not in the map afterwards; set(k, v) puts k in the map, and
\* no call other than set(k, _) does, so the first delete(k) after a set(k, v)
\* returns true and every later one, like the delete of a key never set,
\* returns false and leaves the store as it was.
C28_DeleteReportsPresence ==
    [][secrets[1].some =>
          \A k \in MapKeys :
              /\ Delete(1, k) =>
                    /\ last'[1].res = (IF Present(k) THEN "true" ELSE "false")
                    /\ ~PresentAfter(k)
                    /\ ~Present(k) => secrets' = secrets
              /\ (\E v \in MapValues : Set(1, k, v)) => PresentAfter(k)
              /\ (\/ \E other \in MapKeys \ {k} : Delete(1, other)
                  \/ \E other \in MapKeys : Get(1, other)
                  \/ List(1)) =>
                    (PresentAfter(k) => Present(k))]_vars

\* delete has answered true and one of the four keys is gone
C28_Witness ==
    /\ secrets[1].some
    /\ last[1].op = "delete"
    /\ last[1].res = "true"
    /\ DOMAIN secrets[1].map = MapKeys \ {<<"a">>}

\* C30: the unlocked store is a map with one value for a key: set(k, v)
\* makes v the value of k, delete(k) leaves k without a value, neither
\* changes another key, get and list change nothing, and get(k) returns the
\* value of k, or None when k has none; so get(k) returns the value of the
\* latest set(k, v) that no delete(k) followed.
C30_StoreIsAMap ==
    [][secrets[1].some =>
          \A k \in MapKeys :
              /\ \A v \in MapValues : Set(1, k, v) =>
                    /\ PresentAfter(k)
                    /\ secrets'[1].map[k] = v
                    /\ \A other \in MapKeys \ {k} : Kept(other)
              /\ Delete(1, k) =>
                    /\ ~PresentAfter(k)
                    /\ \A other \in MapKeys \ {k} : Kept(other)
              /\ Get(1, k) =>
                    /\ last'[1].res = "Ok"
                    /\ Present(k) => last'[1].out = <<"Some", secrets[1].map[k]>>
                    /\ ~Present(k) => last'[1].out = <<"None">>
                    /\ secrets' = secrets
              /\ List(1) => secrets' = secrets]_vars

\* get has returned the value of the one key that was set again while the
\* other keys kept theirs, the empty value among them
C30_Witness ==
    /\ secrets[1].some
    /\ DOMAIN secrets[1].map = {<<"a">>, <<"b">>, <<"B">>}
    /\ secrets[1].map[<<"a">>] = <<"2">>
    /\ secrets[1].map[<<"b">>] = <<"1">>
    /\ secrets[1].map[<<"B">>] = <<>>
    /\ last[1].op = "get"
    /\ last[1].out = Some(<<"2">>)

\* the derive_key call of this step returned an error, which unlock and save
\* pass on as Config
KeyDerivationFailed == m_pc' = "returned" /\ last'[1].res = "Config"

IoFailures == {"none", "read", "prompt", "copy", "create", "write", "rename"}

\* Result<String, EnjectError> of maybe_migrate_env_file, with the three files
\* as it leaves them
Migration(ok, content, file, backup, tmp) ==
    [ok |-> ok, content |-> content, file |-> file, backup |-> backup, tmp |-> tmp]

\* maybe_migrate_env_file (l.45-107) for a file that holds content; written
\* is the number of bytes a failing write leaves in the temporary file
maybe_migrate_env_file(content, answer, failure, written, backup, tmp) ==
    LET legacy_count == count_matches(content, EV_COMPAT_PREFIX)
        new_content == replace(content, EV_COMPAT_PREFIX, EN_PREFIX)
        copied == FileOf(content)
    IN  IF legacy_count = 0 THEN Migration(TRUE, content, content, backup, tmp)
        ELSE IF answer = "notty" THEN Migration(TRUE, content, content, backup, tmp)
        ELSE IF failure = "prompt" THEN Migration(FALSE, <<>>, content, backup, tmp)
        ELSE IF answer # "y" THEN Migration(TRUE, content, content, backup, tmp)
        ELSE IF failure = "copy" THEN Migration(FALSE, <<>>, content, backup, tmp)
        ELSE IF failure = "create" THEN Migration(FALSE, <<>>, content, copied, tmp)
        ELSE IF failure = "write"
             THEN Migration(FALSE, <<>>, content, copied,
                            FileOf(SubSeq(new_content, 1, written)))
        ELSE IF failure = "rename"
             THEN Migration(FALSE, <<>>, content, copied, FileOf(new_content))
        ELSE Migration(TRUE, new_content, new_content, copied, NoFile)

\* parse_file (l.37-41)
parse_file(content, answer, failure, written, backup, tmp) ==
    IF failure = "read"
    THEN [ok |-> FALSE, lines |-> <<>>, migration |-> Migration(FALSE, <<>>, content, backup, tmp)]
    ELSE LET mig == maybe_migrate_env_file(content, answer, failure, written, backup, tmp)
             parsed == parse(mig.content)
         IN  [ok |-> mig.ok /\ parsed.ok,
              lines |-> IF mig.ok THEN parsed.lines ELSE <<>>,
              migration |-> mig]

(***************************************************************************)
(* commands::run::run, step by step, in an initialised project: the store   *)
(* file holds one of RunMaps under InitialPassword, or does not exist.      *)
(***************************************************************************)
MaxRunLines == 2

RunLinePool ==
    {<<"A", "=", "1">>,
     <<"B", "=", "e", "n", ":", "/", "/", "x">>,
     <<"C", "=", "e", "v", ":", "/", "/", "y">>,
     <<"D", "=", "e", "n", ":", "/", "/", "g", "l", "o", "b", "a", "l", "/", "x">>,
     <<"U", "=", "d", "e", "v", ":", "/", "/", "h">>,
     <<"#", "e", "v", ":", "/", "/">>,
     <<"o", "o", "p", "s">>}

RunTexts ==
    {join(ls, NEWLINE) \o NEWLINE :
        ls \in UNION {[1..n -> RunLinePool] : n \in 0..MaxRunLines}}

RunMaps ==
    {EmptyMap,
     [k \in {<<"x">>} |-> <<"1">>],
     [k \in {<<"x">>, <<"y">>} |-> IF k = <<"x">> THEN <<"1">> ELSE <<"2">>]}

\* the command lines: none, and a program
Commands == {<<>>, <<"sh">>}

RunInit ==
    /\ kdf_params = [p \in Procs |-> ImportConfig.params]
    /\ salt = [p \in Procs |-> ImportConfig.salt]
    /\ secrets = [p \in Procs |-> NoSecrets]
    /\ pc = [p \in Procs |-> "idle"]
    /\ pending = [p \in Procs |-> NoPending]
    /\ last = [p \in Procs |-> NoLast]
    /\ \/ /\ saved = NeverSaved
          /\ fs = [f \in Paths |-> NoFile]
       \/ \E m \in RunMaps :
             /\ saved = [valid |-> TRUE, password |-> InitialPassword,
                         salt |-> ImportConfig.salt, params |-> ImportConfig.params, map |-> m]
             /\ \E js \in to_vec(m) :
                   fs = [f \in Paths |-> IF f = STORE_PATH THEN StoreFileOf(m, 1, js) ELSE NoFile]
    /\ env_exists \in BOOLEAN
    /\ env_file \in (IF env_exists THEN RunTexts ELSE {<<>>})
    /\ backup_file = NoFile
    /\ migrate_backup = NoFile
    /\ migrate_tmp = NoFile
    /\ env_tmp = NoFile
    /\ import_pc = "idle"
    /\ import_lines = <<>>
    /\ import_password = ""
    /\ import_next = 1
    /\ run_pc = "start"
    /\ run_cmd \in Commands
    /\ run_password = ""
    /\ runner = <<>>
    /\ ResolveIdle
    /\ MemIdle
    /\ ParseIdle

\* what run leaves alone at every step
RunFrame == UNCHANGED <<backup_file, env_tmp, import_pc, import_lines, import_password,
                        import_next, run_cmd, env_exists, memVars, parseVars>>

\* run.rs l.12-22: config::read and the test that .env exists
RunStart(config_ok) ==
    /\ run_pc = "start"
    /\ run_pc' = IF config_ok /\ env_exists THEN "checked" ELSE "failed"
    /\ UNCHANGED <<storeVars, resolveVars, env_file, migrate_backup, migrate_tmp,
                   run_password, runner>>
    /\ RunFrame

\* l.23: env_template::parse_file(&env_path)?
RunParse(answer, failure, written) ==
    /\ run_pc = "checked"
    /\ LET parsed == parse_file(env_file, answer, failure, written, migrate_backup, migrate_tmp)
       IN  /\ env_file' = parsed.migration.file
           /\ migrate_backup' = parsed.migration.backup
           /\ migrate_tmp' = parsed.migration.tmp
           /\ r_lines' = parsed.lines
           /\ run_pc' = propagate(IF parsed.ok THEN "Ok" ELSE "Config", "parsed")
    /\ UNCHANGED <<storeVars, r_local, r_global, r_out, run_password, runner>>
    /\ RunFrame

\* l.26-31: the password prompt, cfg.salt_bytes()? and PasswordStore::new
RunOpen(prompt_ok, password, salt_ok) ==
    /\ run_pc = "parsed"
    /\ IF prompt_ok /\ salt_ok
       THEN /\ New(1, ImportConfig.params, ImportConfig.salt)
            /\ run_password' = password
            /\ run_pc' = "opened"
       ELSE /\ run_pc' = "failed"
            /\ run_password' = IF prompt_ok THEN password ELSE run_password
            /\ UNCHANGED storeVars
    /\ UNCHANGED <<resolveVars, env_file, migrate_backup, migrate_tmp, runner>>
    /\ RunFrame

\* l.32-34: store.unlock(&password)?
RunUnlock ==
    /\ run_pc = "opened"
    /\ Unlock(1, run_password)
    /\ run_pc' = propagate(last'[1].res, "unlocked")
    /\ UNCHANGED <<resolveVars, env_file, migrate_backup, migrate_tmp, run_password, runner>>
    /\ RunFrame

\* build_secrets_map (l.52-61): the value of every key list returns
build_secrets_map(listed, m) ==
    InsertAll(EmptyMap,
              [i \in 1..Len(listed) |->
                   IF listed[i] \in DOMAIN m THEN <<listed[i], m[listed[i]]>>
                   ELSE <<listed[i], <<>>>>])

\* l.37-40: local_secrets and the empty global_secrets
RunBuild ==
    /\ run_pc = "unlocked"
    /\ LET r == secrets_ref(secrets[1])
       IN  \E collected \in keys(r.map) :
               /\ r_local' = IF r.ok THEN build_secrets_map(sort(collected), r.map) ELSE r_local
               /\ run_pc' = propagate(IF r.ok THEN "Ok" ELSE "CorruptStore", "built")
    /\ r_global' = EmptyMap
    /\ UNCHANGED <<storeVars, r_lines, r_out, env_file, migrate_backup, migrate_tmp,
                   run_password, runner>>
    /\ RunFrame

\* l.43-44: env_template::resolve(&lines, &local_secrets, &global_secrets)?
RunResolve ==
    /\ run_pc = "built"
    /\ LET r == resolve(r_lines, r_local, r_global)
       IN  /\ r_out' = [done |-> TRUE, ok |-> r.ok, env |-> r.env, err |-> r.err]
           /\ run_pc' = propagate(IF r.ok THEN "Ok" ELSE "SecretNotFound", "resolved")
    /\ UNCHANGED <<storeVars, r_lines, r_local, r_global, env_file, migrate_backup,
                   migrate_tmp, run_password, runner>>
    /\ RunFrame

\* runner::exec (runner.rs l.8-29): no command is an error; otherwise the
\* program is started with extra_env over the inherited environment, and the
\* process exits with its status unless it could not be started
exec(cmd, extra_env, started) ==
    IF cmd = <<>> THEN [res |-> "failed", spawned |-> <<>>]
    ELSE IF ~started THEN [res |-> "failed", spawned |-> <<>>]
    ELSE [res |-> "exited", spawned |-> <<[program |-> Head(cmd), env |-> extra_env]>>]

\* run.rs l.47: runner::exec(&cmd, &resolved)?
RunExec(started) ==
    /\ run_pc = "resolved"
    /\ LET r == exec(run_cmd, r_out.env, started)
       IN  /\ runner' = Append(runner, [cmd |-> run_cmd, extra_env |-> r_out.env,
                                        spawned |-> r.spawned])
           /\ run_pc' = r.res
    /\ UNCHANGED <<storeVars, resolveVars, env_file, migrate_backup, migrate_tmp, run_password>>
    /\ RunFrame

RunNext ==
    \/ \E config_ok \in BOOLEAN : RunStart(config_ok)
    \/ \E answer \in Answers, failure \in IoFailures, written \in {0, 1} :
           RunParse(answer, failure, written)
    \/ \E prompt_ok \in BOOLEAN, password \in Passwords, salt_ok \in BOOLEAN :
           RunOpen(prompt_ok, password, salt_ok)
    \/ RunUnlock
    \/ RunBuild
    \/ RunResolve
    \/ \E started \in BOOLEAN : RunExec(started)

SpecRun == RunInit /\ [][RunNext]_vars

\* what the store file holds
StoredMap == IF saved.valid THEN saved.map ELSE EmptyMap

\* C31: run calls the process runner at most once, and only after parse_file,
\* unlock and resolve have succeeded; the environment the runner and the
\* subprocess get is the map resolve returns for the parsed lines over the
\* whole content of the unlocked store.  When one of the steps fails the
\* runner is not called and no subprocess is started.
C31_RunnerOnlyAfterSuccess ==
    /\ Len(runner) <= 1
    /\ runner # <<>> =>
          /\ run_pc \in {"exited", "failed"}
          /\ parse(env_file) = [ok |-> TRUE, lines |-> r_lines]
          /\ last[1].op = "unlock"
          /\ last[1].res = "Ok"
          /\ secrets[1] = SomeSecrets(StoredMap)
          /\ r_local = StoredMap
          /\ r_out.done
          /\ r_out.ok
          /\ resolve(r_lines, StoredMap, EmptyMap).ok
          /\ runner[1].extra_env = resolve(r_lines, StoredMap, EmptyMap).env
          /\ \A i \in 1..Len(runner[1].spawned) :
                runner[1].spawned[i].env = runner[1].extra_env
          /\ Len(runner[1].spawned) <= 1
    /\ (run_pc = "failed" /\ ~(r_out.done /\ r_out.ok)) => runner = <<>>

\* a subprocess has been started with two secrets of the store, one of them
\* named by a legacy reference
C31_Witness ==
    /\ Len(runner) = 1
    /\ Len(runner[1].spawned) = 1
    /\ DOMAIN runner[1].spawned[1].env = {<<"B">>, <<"C">>}
    /\ runner[1].spawned[1].env[<<"B">>] = <<"1">>
    /\ runner[1].spawned[1].env[<<"C">>] = <<"2">>

\* a statement of unlock is executed
UnlockStep ==
    \/ \E pw \in Passwords : MemUnlockCall(pw)
    \/ \E io_ok \in BOOLEAN : MemUnlockRead(io_ok)
    \/ MemUnlockDerive
    \/ MemUnlockDecrypt
    \/ MemUnlockZeroize
    \/ MemUnlockLoad

\* the step returns from unlock with this result
UnlockReturns(res) == UnlockStep /\ m_pc' = "returned" /\ last'[1].res = res

\* C32: no statement of unlock changes the store file or the configuration,
\* and self.secrets changes only in the statement that returns Ok; so after
\* unlock has returned an error (CorruptStore, DecryptionFailed, Config, Io)
\* a locked store is still locked, an unlocked one holds the map it held, and
\* the file is as it was.
C32_FailedUnlockChangesNothing ==
    [][UnlockStep =>
          /\ fs' = fs
          /\ kdf_params' = kdf_params
          /\ salt' = salt
          /\ ~UnlockReturns("Ok") =>
                /\ secrets' = secrets
                /\ secrets_ref(secrets'[1]).ok = secrets[1].some
          /\ m_pc' = "returned" =>
                last'[1].res \in {"Ok", "CorruptStore", "DecryptionFailed", "Config", "Io"}]_vars

\* unlock has failed to decrypt the file, and the store still holds the map it
\* held before the call
C32_Witness ==
    /\ m_pc = "returned"
    /\ last[1].op = "unlock"
    /\ last[1].res = "DecryptionFailed"
    /\ secrets[1] = SomeSecrets([k \in {<<"b">>} |-> <<"2">>])
    /\ disk.exists

\* process p executes a statement of save (and is not killed in it)
SaveStep(p) ==
    /\ last'[p].op = "save"
    /\ pc'[p] # pc[p] \/ last'[p] # last[p]
    /\ pc'[p] # "crashed"

\* C33 as claimed: a statement of save changes the store file only if it is
\* the rename, with which save returns Ok, and none changes the map in
\* memory; so a save that returns an error, at whatever step, leaves the
\* content of the store file and the map as they were.
C33_FailedSaveChangesNothing ==
    [][\A p \in DOMAIN pc :
          SaveStep(p) =>
              /\ secrets'[p] = secrets[p]
              /\ disk' # disk => (SaveRename(p) /\ last'[p].res = "Ok")]_vars

\* the save of process 2 has returned an I/O error, and the store file holds
\* what it wrote: it opens to the map of process 2
C33_Witness ==
    /\ last[2].op = "save"
    /\ last[2].res = "Io"
    /\ pc[2] = "idle"
    /\ disk # OriginalFile
    /\ UnlockOutcome(disk, NoSecrets, RacePassword, salt[2], kdf_params[2])
          = [res |-> "Ok", secrets |-> SomeSecrets(secrets[2].map)]

\* the lines but for line i
Without(lines, i) == SubSeq(lines, 1, i - 1) \o SubSeq(lines, i + 1, Len(lines))

\* the non-Passthrough lines that assign key
LinesOf(key) == {i \in NonPassthrough : r_lines[i].key = key}

LastOf(key) == CHOOSE i \in LinesOf(key) : \A j \in LinesOf(key) : j <= i

\* C34: when every reference resolves, a key that several non-Passthrough
\* lines assign has the value the last of them contributes, and the lines
\* before it that assign the key change nothing: without any one of them
\* resolve returns the same map.
C34_LastDuplicateWins ==
    (r_out.done /\ UnresolvedLines = {}) =>
        \A i \in NonPassthrough :
            LET key == r_lines[i].key
            IN  Cardinality(LinesOf(key)) > 1 =>
                    /\ r_out.ok
                    /\ key \in DOMAIN r_out.env
                    /\ r_out.env[key] = Contribution(LastOf(key))
                    /\ i # LastOf(key) =>
                          resolve(Without(r_lines, i), r_local, r_global)
                              = [ok |-> TRUE, env |-> r_out.env, err |-> r_out.err]

\* A is assigned by a reference and then by a literal, with another key in
\* between: A has the literal, B its own value
C34_Witness ==
    /\ r_out.done
    /\ r_out.ok
    /\ r_lines = <<LocalRef(<<"A">>, <<"x">>), Plain(<<"B">>, <<"2">>), Plain(<<"A">>, <<"1">>)>>
    /\ r_out.env[<<"A">>] = <<"1">>
    /\ r_out.env[<<"B">>] = <<"2">>

\* str begins with global/
GlobalScoped(str) ==
    /\ Len(str) >= 7
    /\ SubSeq(str, 1, 7) = <<"g", "l", "o", "b", "a", "l", "/">>

\* the name SecretNotFound carries when the reference of this line is looked
\* up in empty maps
MissingName(line) == resolve(<<line>>, EmptyMap, EmptyMap).err

\* C35: no LocalRef that parse_line returns has a secret name that begins
\* with global/; the name SecretNotFound carries for it is the bare name,
\* while the name it carries for a GlobalRef begins with global/, so the two
\* never coincide.
C35_LocalNamesNeverGlobalScoped ==
    Parsed =>
        /\ p_out.line.variant = "LocalRef" =>
              /\ ~GlobalScoped(p_out.line.text)
              /\ MissingName(p_out.line) = p_out.line.text
              /\ ~GlobalScoped(MissingName(p_out.line))
        /\ p_out.line.variant = "GlobalRef" =>
              /\ GlobalScoped(MissingName(p_out.line))
              /\ MissingName(p_out.line)
                    = <<"g", "l", "o", "b", "a", "l", "/">> \o p_out.line.text

\* a line whose value is the reference prefix followed by global/ and a name
\* has been parsed, as a GlobalRef
C35_Witness ==
    /\ Parsed
    /\ p_line = <<"A", "=", "e", "n", ":", "/", "/", "g", "l", "o", "b", "a", "l", "/", "x">>
    /\ p_out.line.variant = "GlobalRef"
    /\ p_out.line.text = <<"x">>

\* the content holds the legacy token and the user, at a terminal, accepts
\* the rewrite
Accepted(content, answer) == count_matches(content, EV_COMPAT_PREFIX) > 0 /\ answer = "y"

\* C36 as claimed: when the user accepts the rewrite and parse_file goes
\* through, the lines parsed from the migrated content are the lines the
\* original content parses to; when the user declines or stdin is no terminal,
\* the file stays as it is and the content returned is the original content.
C36_MigrationKeepsParsedLines ==
    [][\A answer \in Answers, failure \in IoFailures, written \in {0, 1} :
          RunParse(answer, failure, written) =>
              LET mig == maybe_migrate_env_file(env_file, answer, failure, written,
                                                migrate_backup, migrate_tmp)
              IN  /\ (Accepted(env_file, answer) /\ failure = "none") =>
                        /\ mig.ok
                        /\ env_file' = mig.content
                        /\ parse(mig.content) = parse(env_file)
                        /\ run_pc' = "parsed" => r_lines' = parse(env_file).lines
                  /\ (~Accepted(env_file, answer) /\ failure \notin {"read", "prompt"}) =>
                        /\ mig.ok
                        /\ mig.content = env_file
                        /\ env_file' = env_file
                        /\ migrate_backup' = migrate_backup]_vars

\* the file held a literal with ev:// inside its value; after the accepted
\* migration the value parsed is another one than the backup's
C36_Witness ==
    /\ run_pc = "parsed"
    /\ migrate_backup.exists
    /\ migrate_backup.data = <<"U", "=", "d", "e", "v", ":", "/", "/", "h", "\n">>
    /\ parse(migrate_backup.data).lines = <<Plain(<<"U">>, <<"d", "e", "v", ":", "/", "/", "h">>)>>
    /\ r_lines = <<Plain(<<"U">>, <<"d", "e", "n", ":", "/", "/", "h">>)>>
    /\ env_file = <<"U", "=", "d", "e", "n", ":", "/", "/", "h", "\n">>
====
